---- MODULE Spec2Model ----
(***************************************************************************)
(* A model of the web-summarizer service (summarizer_app): URL validation  *)
(* and YouTube classification, the two content fetchers, the model call    *)
(* with its timeout, the temporary-file store that hands a summary from    *)
(* the summarize request to the show_summary request, and the request      *)
(* handlers that tie them together.                                        *)
(*                                                                         *)
(* Strings whose characters matter (URLs) are sequences of one-character   *)
(* strings.  Texts whose length matters (page text, transcripts, model     *)
(* output) are sequences of runs, see the section on texts.                *)
(***************************************************************************)
EXTENDS Integers, Sequences, FiniteSets, TLC

VARIABLES
    call,       \* the pure function under test and its argument
    ret,        \* what it returned, or NotCalled
    files,      \* the temporary directory: token -> the summary file of that token
    issued,     \* the values uuid.uuid4() has returned so far
    stored,     \* history: token -> the payload store_summary_data was given for it
    taken,      \* history: token -> what each retrieve_summary_data of it returned
                \* since it was stored
    main_thread,    \* whether the server runs its handlers in the main thread
    llm,            \* whether the module-level model client was initialised
    session,        \* session -> the summary_id it holds, or NoToken
    alarm,          \* whether a SIGALRM armed by signal.alarm is pending
    n_requests,     \* the summarize requests received so far
    pc,             \* where the summarize request in progress stands
    req,            \* the summarize request in progress, or the last one
    transcript,     \* fetch_youtube_transcript: the transcript it selected
    content,        \* summarize_ajax: what the fetcher returned
    exc,            \* whether an exception is propagating out of the fetcher
    prompt,         \* get_summary_from_llm: the prompt it submitted
    worker,         \* the executor's thread running llm.generate_content
    model_response, \* what generate_content returned or raised
    summary,        \* summarize_ajax: what get_summary_from_llm returned
    response,       \* the response to the last request
    events,         \* history: the stages of the request in progress, in order
    karakeep,       \* which of the three Karakeep settings the environment sets
    n_publishes,    \* the publish requests received so far
    ppc,            \* where the publish request in progress stands
    form,           \* the form of the publish request in progress, or the last one
    karakeep_title, \* send_to_karakeep: what get_short_title_from_llm returned
    karakeep_list_id,   \* send_to_karakeep: what get_karakeep_list_id returned
    new_bookmark_id,    \* send_summary_to_karakeep: the id POST /bookmarks returned
    lists_response, \* history: what GET /lists answered in this publish request
    outbound,       \* history: the outbound calls of the publish request, in order
    bookmarks,      \* the bookmark service: its bookmarks, in the order of creation
    notice,         \* the notice flashed by the last publish request
    workers         \* server thread -> where its store_summary_data or
                    \* retrieve_summary_data call stands

storeVars == <<files, issued, stored, taken>>
configVars == <<main_thread, llm, karakeep>>
localVars == <<transcript, content, exc, prompt, worker, model_response, summary>>
requestVars == <<session, alarm, n_requests, pc, req, response, events>>
publishVars ==
    <<n_publishes, ppc, form, karakeep_title, karakeep_list_id, new_bookmark_id,
      lists_response, outbound, bookmarks, notice>>
vars == <<call, ret, storeVars, configVars, localVars, requestVars, publishVars, workers>>

\* the value of ret before and after a call
NotCalled == [done |-> FALSE]
Returned(v) == [done |-> TRUE, value |-> v]

\* Python's None where a character string is expected (no string has a
\* character of more than one letter)
NoneStr == <<"None">>

(***************************************************************************)
(* Character strings                                                       *)
(***************************************************************************)

\* s[i:] of a character sequence, i counted from 1
Drop(s, i) == SubSeq(s, i, Len(s))

\* s.startswith(p) at position i (1-based)
HasAt(s, i, p) ==
    /\ i + Len(p) - 1 <= Len(s)
    /\ \A k \in 1..Len(p) : s[i + k - 1] = p[k]

\* the least index of s whose character is in cs, or 0
FirstIn(s, cs) ==
    LET hits == {i \in 1..Len(s) : s[i] \in cs}
    IN  IF hits = {} THEN 0 ELSE CHOOSE i \in hits : \A j \in hits : i <= j

LowerLetters == {"a", "b", "c", "d", "e", "f", "g", "h", "i", "j", "k", "l", "m",
                 "n", "o", "p", "q", "r", "s", "t", "u", "v", "w", "x", "y", "z"}
UpperLetters == {"A", "B", "C", "D", "E", "F", "G", "H", "I", "J", "K", "L", "M",
                 "N", "O", "P", "Q", "R", "S", "T", "U", "V", "W", "X", "Y", "Z"}
Digits == {"0", "1", "2", "3", "4", "5", "6", "7", "8", "9"}

\* str.lower() on the letters the inputs use in upper case
LowerChar(c) ==
    CASE c = "H" -> "h"
      [] c = "T" -> "t"
      [] c = "P" -> "p"
      [] c = "S" -> "s"
      [] OTHER -> c

Lower(s) == [i \in 1..Len(s) |-> LowerChar(s[i])]

(***************************************************************************)
(* is_valid_url: urlparse, then scheme in {http, https} and a netloc       *)
(***************************************************************************)

\* urllib.parse.scheme_chars
SchemeChars == LowerLetters \cup UpperLetters \cup Digits \cup {"+", "-", "."}

\* urlsplit: scheme and netloc; ValueError for an unbalanced bracket in the netloc
urlparse(url) ==
    LET colon == FirstIn(url, {":"})
        hasScheme ==
            /\ colon > 1
            /\ url[1] \in LowerLetters \cup UpperLetters
            /\ \A k \in 1..(colon - 1) : url[k] \in SchemeChars
        scheme == IF hasScheme THEN Lower(SubSeq(url, 1, colon - 1)) ELSE <<>>
        rest == IF hasScheme THEN Drop(url, colon + 1) ELSE url
        afterSlashes == Drop(rest, 3)
        delim == FirstIn(afterSlashes, {"/", "?", "#"})
        netloc ==
            IF HasAt(rest, 1, <<"/", "/">>)
            THEN IF delim = 0 THEN afterSlashes ELSE SubSeq(afterSlashes, 1, delim - 1)
            ELSE <<>>
        hasOpen == \E i \in 1..Len(netloc) : netloc[i] = "["
        hasClose == \E i \in 1..Len(netloc) : netloc[i] = "]"
    IN  [ValueError |-> hasOpen # hasClose, scheme |-> scheme, netloc |-> netloc]

\* is_valid_url without the netloc in its all([...])
is_valid_url_scheme_only(url_string) ==
    IF url_string = NoneStr \/ url_string = <<>>
    THEN FALSE
    ELSE LET parsed == urlparse(url_string)
         IN  IF parsed.ValueError
             THEN FALSE
             ELSE parsed.scheme \in {<<"h", "t", "t", "p">>, <<"h", "t", "t", "p", "s">>}

is_valid_url(url_string) ==
    IF url_string = NoneStr \/ url_string = <<>>
    THEN FALSE
    ELSE LET parsed == urlparse(url_string)
         IN  IF parsed.ValueError
             THEN FALSE
             ELSE /\ parsed.scheme \in {<<"h", "t", "t", "p">>, <<"h", "t", "t", "p", "s">>}
                  /\ parsed.netloc # <<>>

(***************************************************************************)
(* is_youtube_url: four regular expressions tried in order with re.search  *)
(***************************************************************************)

\* {11}: the number of characters the capture group takes
IdLen == 11

\* [a-zA-Z0-9_-]
IdChars == LowerLetters \cup UpperLetters \cup Digits \cup {"_", "-"}

\* (?:https?:\/\/)?(?:www\.)? : the prefixes the two optional groups can
\* consume, in the order the greedy match tries them
OptionalPrefixes ==
    << <<"h", "t", "t", "p", "s", ":", "/", "/", "w", "w", "w", ".">>,
       <<"h", "t", "t", "p", "s", ":", "/", "/">>,
       <<"h", "t", "t", "p", ":", "/", "/", "w", "w", "w", ".">>,
       <<"h", "t", "t", "p", ":", "/", "/">>,
       <<"w", "w", "w", ".">>,
       <<>> >>

\* the patterns with the youtu.be one moved to the front
patterns_reordered ==
    << <<"y", "o", "u", "t", "u", ".", "b", "e", "/">>,
       <<"y", "o", "u", "t", "u", "b", "e", ".", "c", "o", "m", "/",
         "w", "a", "t", "c", "h", "?", "v", "=">>,
       <<"y", "o", "u", "t", "u", "b", "e", ".", "c", "o", "m", "/",
         "e", "m", "b", "e", "d", "/">>,
       <<"y", "o", "u", "t", "u", "b", "e", ".", "c", "o", "m", "/", "v", "/">> >>

\* the literal part of each pattern, in the order of the list `patterns`
patterns ==
    << <<"y", "o", "u", "t", "u", "b", "e", ".", "c", "o", "m", "/",
         "w", "a", "t", "c", "h", "?", "v", "=">>,
       <<"y", "o", "u", "t", "u", ".", "b", "e", "/">>,
       <<"y", "o", "u", "t", "u", "b", "e", ".", "c", "o", "m", "/",
         "e", "m", "b", "e", "d", "/">>,
       <<"y", "o", "u", "t", "u", "b", "e", ".", "c", "o", "m", "/", "v", "/">> >>

\* the pattern matched with prefix alternative a starting at position i
MatchesWith(literal, url, i, a) ==
    LET pre == OptionalPrefixes[a]
        at == i + Len(pre)
        idAt == at + Len(literal)
    IN  /\ HasAt(url, i, pre)
        /\ HasAt(url, at, literal)
        /\ idAt + IdLen - 1 <= Len(url)
        /\ \A k \in idAt..(idAt + IdLen - 1) : url[k] \in IdChars

\* group(1) of the match that starts at i with alternative a
GroupWith(literal, url, i, a) ==
    LET idAt == i + Len(OptionalPrefixes[a]) + Len(literal)
    IN  SubSeq(url, idAt, idAt + IdLen - 1)

\* re.search(pattern, url): group(1) of the leftmost match, None without a match
re_search(literal, url) ==
    LET starts == {i \in 1..(Len(url) + 1) :
                     \E a \in 1..Len(OptionalPrefixes) : MatchesWith(literal, url, i, a)}
    IN  IF starts = {}
        THEN NoneStr
        ELSE LET i == CHOOSE x \in starts : \A y \in starts : x <= y
                 alts == {a \in 1..Len(OptionalPrefixes) : MatchesWith(literal, url, i, a)}
                 a == CHOOSE x \in alts : \A y \in alts : x <= y
             IN  GroupWith(literal, url, i, a)

\* the for loop over the patterns from index k on
RECURSIVE FirstMatch(_, _)
FirstMatch(url, k) ==
    IF k > Len(patterns)
    THEN NoneStr
    ELSE LET m == re_search(patterns[k], url)
         IN  IF m # NoneStr THEN m ELSE FirstMatch(url, k + 1)

is_youtube_url(url) == FirstMatch(url, 1)

(***************************************************************************)
(* The URLs the checks draw from: scheme, subdomain, host and path, id     *)
(* segment, and what follows it                                            *)
(***************************************************************************)

UrlSchemes ==
    { <<>>,
      <<"h", "t", "t", "p", ":", "/", "/">>,
      <<"h", "t", "t", "p", "s", ":", "/", "/">>,
      <<"H", "T", "T", "P", ":", "/", "/">>,
      <<"f", "t", "p", ":", "/", "/">>,
      <<"h", "t", "t", "p", ":", "/">> }

UrlSubdomains == { <<>>, <<"w", "w", "w", ".">> }

\* host and path up to the id segment; the first four are the shapes of `patterns`
UrlHostPaths ==
    << <<"y", "o", "u", "t", "u", "b", "e", ".", "c", "o", "m", "/",
         "w", "a", "t", "c", "h", "?", "v", "=">>,
       <<"y", "o", "u", "t", "u", ".", "b", "e", "/">>,
       <<"y", "o", "u", "t", "u", "b", "e", ".", "c", "o", "m", "/",
         "e", "m", "b", "e", "d", "/">>,
       <<"y", "o", "u", "t", "u", "b", "e", ".", "c", "o", "m", "/", "v", "/">>,
       <<"e", "x", "a", "m", "p", "l", "e", ".", "c", "o", "m", "/">>,
       <<"n", "o", "t", "y", "o", "u", "t", "u", "b", "e", ".", "c", "o", "m", "/",
         "w", "a", "t", "c", "h", "?", "v", "=">>,
       <<"e", "x", "a", "m", "p", "l", "e", ".", "c", "o", "m", "/", "?", "u", "=",
         "y", "o", "u", "t", "u", ".", "b", "e", "/">>,
       <<"y", "o", "u", "t", "u", "b", "e", ".", "c", "o", "m", "/",
         "s", "h", "o", "r", "t", "s", "/">>,
       <<"/", "w", "a", "t", "c", "h", "?", "v", "=">> >>

GoodId == <<"d", "Q", "w", "4", "w", "9", "W", "g", "X", "c", "Q">>
OtherId == <<"A", "_", "-", "3", "4", "5", "6", "7", "8", "9", "B">>

UrlIds ==
    { GoodId,
      <<"d", "Q", "w", "4", "w", "9", "W", "g", "X", "c">>,
      <<"d", "Q", "w", "4", "w", "9", "W", "g", "X", "c", "Q", "Z">>,
      <<"d", "Q", "w", "4", "!", "9", "W", "g", "X", "c", "Q">> }

\* what follows the id segment; the last one carries a watch URL in its query
WatchSuffix ==
    <<"?", "r", "=", "y", "o", "u", "t", "u", "b", "e", ".", "c", "o", "m", "/",
      "w", "a", "t", "c", "h", "?", "v", "=">> \o OtherId

UrlSuffixes == { <<>>, <<"&", "t", "=", "1">>, WatchSuffix }

UrlInputs ==
    [scheme : UrlSchemes, sub : UrlSubdomains, hostpath : 1..Len(UrlHostPaths),
     id : UrlIds, suffix : UrlSuffixes]

\* the URL string of an input
UrlOf(u) == u.scheme \o u.sub \o UrlHostPaths[u.hostpath] \o u.id \o u.suffix


(***************************************************************************)
(* Texts: a sequence of runs [c, n], n >= 1 characters of kind c.  "x" is  *)
(* a visible character, " " is whitespace; a run of a truncation marker    *)
(* holds the first n characters of that marker.                            *)
(***************************************************************************)

\* Python's None where a text is expected
NoneText == <<[c |-> "None", n |-> 0]>>

RECURSIVE TLen(_)
TLen(t) == IF t = <<>> THEN 0 ELSE Head(t).n + TLen(Tail(t))

\* str.strip(): leading and trailing whitespace runs removed
RECURSIVE LStrip(_)
LStrip(t) == IF t # <<>> /\ Head(t).c = " " THEN LStrip(Tail(t)) ELSE t

RECURSIVE RStrip(_)
RStrip(t) ==
    IF t # <<>> /\ t[Len(t)].c = " " THEN RStrip(SubSeq(t, 1, Len(t) - 1)) ELSE t

strip(t) == RStrip(LStrip(t))

\* t[:k]
RECURSIVE TTake(_, _)
TTake(t, k) ==
    IF k <= 0 \/ t = <<>>
    THEN <<>>
    ELSE IF Head(t).n <= k
         THEN <<Head(t)>> \o TTake(Tail(t), k - Head(t).n)
         ELSE <<[c |-> Head(t).c, n |-> k]>>

\* a + b; adjacent runs of the same plain character become one run
TCat(a, b) ==
    IF a # <<>> /\ b # <<>> /\ a[Len(a)].c = Head(b).c /\ Head(b).c \in {"x", " "}
    THEN SubSeq(a, 1, Len(a) - 1)
           \o <<[c |-> Head(b).c, n |-> a[Len(a)].n + Head(b).n]>> \o Tail(b)
    ELSE a \o b

\* ' '.join(t.split()): no whitespace at the ends, one space between words
split_join(t) ==
    LET s == strip(t)
    IN  [i \in 1..Len(s) |-> IF s[i].c = " " THEN [c |-> " ", n |-> 1] ELSE s[i]]

\* " ".join(texts)
RECURSIVE join(_)
join(texts) ==
    IF texts = <<>> THEN <<>>
    ELSE IF Len(texts) = 1 THEN Head(texts)
    ELSE TCat(TCat(Head(texts), <<[c |-> " ", n |-> 1]>>), join(Tail(texts)))

\* "... [Content truncated due to size]" and "... [Transcript truncated due to size]"
ContentMarkerLen == 35
TranscriptMarkerLen == 38
ContentMarker == <<[c |-> "ContentMarker", n |-> ContentMarkerLen]>>
TranscriptMarker == <<[c |-> "TranscriptMarker", n |-> TranscriptMarkerLen]>>

\* the comparison with the size limit made with >=
Truncate_at_limit(t, cap, marker) == IF TLen(t) >= cap THEN TTake(t, cap) \o marker ELSE t

\* if len(t) > cap: t = t[:cap] + marker
Truncate(t, cap, marker) == IF TLen(t) > cap THEN TTake(t, cap) \o marker ELSE t

\* markdown.markdown(text): a paragraph around the stripped text, nothing for
\* blank text
markdown(t) ==
    IF strip(t) = <<>>
    THEN <<>>
    ELSE <<[c |-> "<p>", n |-> 3]>> \o strip(t) \o <<[c |-> "</p>", n |-> 4]>>

(***************************************************************************)
(* The temporary-file store: store_summary_data / retrieve_summary_data    *)
(***************************************************************************)

\* how many tokens uuid4 can hand out in a run of the model
MaxTokens == 2

Tokens == 1..MaxTokens

NoFile == [exists |-> FALSE]
File(data) == [exists |-> TRUE, data |-> data]

\* json.dump of the summary dictionary: the key/value pairs in insertion order,
\* then the closing brace
json_dump(summary_data) ==
    [pairs |-> << <<"original_url", summary_data.original_url>>,
                  <<"summary_html", summary_data.summary_html>>,
                  <<"summary_markdown", summary_data.summary_markdown>> >>,
     closed |-> TRUE]

\* what a json.dump that failed after k pairs left in the file
PartialDump(summary_data, k) ==
    [pairs |-> SubSeq(json_dump(summary_data).pairs, 1, k), closed |-> FALSE]

\* json.load: the dictionary of the pairs; JSONDecodeError for a document that
\* is not closed
json_load(data) ==
    IF ~data.closed
    THEN [JSONDecodeError |-> TRUE]
    ELSE [JSONDecodeError |-> FALSE,
          value |-> [k \in {data.pairs[i][1] : i \in 1..Len(data.pairs)} |->
                       LET last == CHOOSE i \in 1..Len(data.pairs) :
                                     /\ data.pairs[i][1] = k
                                     /\ \A j \in (i + 1)..Len(data.pairs) :
                                          data.pairs[j][1] # k
                       IN  data.pairs[last][2]]]

\* retrieve_summary_data returned None
Absent == [found |-> FALSE, raised |-> FALSE]
Found(d) == [found |-> TRUE, raised |-> FALSE, data |-> d]
\* the except branch of helpers.py logs through a module it never imports
NameError == [found |-> FALSE, raised |-> TRUE]

\* uuid4 handing out a value whether or not it has returned it before
uuid4_any(tok) == tok \in Tokens

\* uuid.uuid4(): a value it has not returned before; the values are numbered
\* in the order they are handed out
uuid4(tok) ==
    /\ tok \in Tokens \ issued
    /\ \A u \in Tokens \ issued : tok <= u

\* a store with room for one record: the put removes every other file
store_summary_data_single_slot(fs, tok, summary_data) ==
    [t \in Tokens |-> IF t = tok THEN File(json_dump(summary_data)) ELSE NoFile]

\* store_summary_data with uuid4 returning tok: the file is written whole
store_summary_data(fs, tok, summary_data) ==
    [fs EXCEPT ![tok] = File(json_dump(summary_data))]

\* retrieve_summary_data without its os.remove
retrieve_summary_data_keeps_file(fs, summary_id) ==
    IF ~fs[summary_id].exists
    THEN [result |-> Absent, files |-> fs]
    ELSE LET loaded == json_load(fs[summary_id].data)
         IN  IF loaded.JSONDecodeError
             THEN [result |-> NameError, files |-> fs]
             ELSE [result |-> Found(loaded.value), files |-> fs]

\* retrieve_summary_data: what it returns and the files it leaves
retrieve_summary_data(fs, summary_id) ==
    IF ~fs[summary_id].exists
    THEN [result |-> Absent, files |-> fs]
    ELSE LET loaded == json_load(fs[summary_id].data)
         IN  IF loaded.JSONDecodeError
             THEN [result |-> NameError, files |-> fs]
             ELSE [result |-> Found(loaded.value),
                   files |-> [fs EXCEPT ![summary_id] = NoFile]]

\* how many takes of one token the history records
MaxTakes == 2

StoreUrls ==
    { <<"h", "t", "t", "p", "s", ":", "/", "/", "a", ".", "b", "/">>,
      <<"h", "t", "t", "p", "s", ":", "/", "/", "y", "o", "u", "t", "u", ".", "b", "e", "/">> \o GoodId }

StoreTexts == { <<>>, <<[c |-> "x", n |-> 2], [c |-> " ", n |-> 1], [c |-> "x", n |-> 1]>> }

\* the summary stored as its own HTML: markdown.markdown left out
SummaryData_markdown_as_html(u, t) ==
    [original_url |-> u, summary_html |-> t, summary_markdown |-> t]

\* summarize_ajax: the dictionary it hands to store_summary_data
SummaryData(u, t) ==
    [original_url |-> u, summary_html |-> markdown(t), summary_markdown |-> t]

StorePayloads == { SummaryData(u, t) : u \in StoreUrls, t \in StoreTexts }

NotStored == [put |-> FALSE]

\* the server's threads, each handling one request at a time
Workers == {"w1", "w2"}

\* a thread outside store_summary_data and retrieve_summary_data
IdleWorker ==
    [pc |-> "idle", session |-> "none", tok |-> 0, k |-> 0, data |-> SummaryData(<<>>, <<>>)]

InitStoreVars ==
    /\ files = [t \in Tokens |-> NoFile]
    /\ issued = {}
    /\ stored = [t \in Tokens |-> NotStored]
    /\ taken = [t \in Tokens |-> <<>>]
    /\ workers = [w \in Workers |-> IdleWorker]

(***************************************************************************)
(* fetch_page_content                                                      *)
(***************************************************************************)

MAX_CHARS == 100000

\* the text of the page between the HTTP response and the size limit
page_text(body_text) == split_join(body_text)

\* what requests.get and the parser can give: an exception, a response that
\* is not HTML, a document without a body element, or a body with its text
WebOutcomes ==
    { [kind |-> "Timeout", text |-> <<>>],
      [kind |-> "ConnectionError", text |-> <<>>],
      [kind |-> "HTTPError", text |-> <<>>],
      [kind |-> "not_html", text |-> <<>>],
      [kind |-> "no_body", text |-> <<>>],
      [kind |-> "body", text |-> <<>>],
      [kind |-> "body", text |-> <<[c |-> " ", n |-> 3]>>],
      [kind |-> "body", text |-> <<[c |-> " ", n |-> 2], [c |-> "x", n |-> 4],
                                   [c |-> " ", n |-> 3], [c |-> "x", n |-> 2]>>],
      [kind |-> "body", text |-> <<[c |-> "x", n |-> MAX_CHARS + 1]>>] }

\* fetch_page_content: the text, or None
fetch_page_content(o) ==
    IF o.kind = "body"
    THEN Truncate(page_text(o.text), MAX_CHARS, ContentMarker)
    ELSE NoneText

(***************************************************************************)
(* fetch_youtube_transcript                                                *)
(***************************************************************************)

MAX_TRANSCRIPT_CHARS == 75000

preferred_languages == <<"en", "en-US", "en-GB">>

NoTranscript == [found |-> FALSE]
Transcript(g, l) == [found |-> TRUE, is_generated |-> g, language_code |-> l]

\* find_manually_created_transcript / find_generated_transcript: the first
\* preferred language the list has, NoTranscriptFound (NoTranscript) otherwise
find_transcript(codes, generated) ==
    LET hits == {i \in 1..Len(preferred_languages) :
                   \E j \in 1..Len(codes) : codes[j] = preferred_languages[i]}
    IN  IF hits = {}
        THEN NoTranscript
        ELSE Transcript(generated,
                        preferred_languages[CHOOSE i \in hits : \A j \in hits : i <= j])

\* list(transcript_list)[0] with an English generated transcript assumed for
\* an empty list
first_transcript_or_default(tl) ==
    IF tl.manual # <<>> THEN Transcript(FALSE, tl.manual[1])
    ELSE IF tl.generated # <<>> THEN Transcript(TRUE, tl.generated[1])
    ELSE Transcript(TRUE, "en")

\* list(transcript_list)[0]: the manually created ones come first
first_transcript(tl) ==
    IF tl.manual # <<>> THEN Transcript(FALSE, tl.manual[1])
    ELSE IF tl.generated # <<>> THEN Transcript(TRUE, tl.generated[1])
    ELSE NoTranscript

\* the nested tries with the generated transcripts looked at first
select_transcript_generated_first(tl) ==
    IF find_transcript(tl.generated, TRUE).found THEN find_transcript(tl.generated, TRUE)
    ELSE IF find_transcript(tl.manual, FALSE).found THEN find_transcript(tl.manual, FALSE)
    ELSE first_transcript(tl)

\* the transcript the three nested tries settle on; NoTranscript is the IndexError
select_transcript(tl) ==
    IF find_transcript(tl.manual, FALSE).found THEN find_transcript(tl.manual, FALSE)
    ELSE IF find_transcript(tl.generated, TRUE).found THEN find_transcript(tl.generated, TRUE)
    ELSE first_transcript(tl)

\* what list_transcripts can give: an exception or the transcripts of the video
ListOutcomes ==
    { [kind |-> "TranscriptsDisabled", manual |-> <<>>, generated |-> <<>>],
      [kind |-> "Exception", manual |-> <<>>, generated |-> <<>>],
      [kind |-> "list", manual |-> <<>>, generated |-> <<>>],
      [kind |-> "list", manual |-> <<"de", "en-GB">>, generated |-> <<"en">>],
      [kind |-> "list", manual |-> <<"de">>, generated |-> <<"en-US">>],
      [kind |-> "list", manual |-> <<>>, generated |-> <<"fr">>] }

\* history: what the video turned out to be when list_transcripts answered
video_events(o) ==
    IF o.kind = "TranscriptsDisabled" THEN <<"transcripts_disabled">>
    ELSE IF o.kind = "list" /\ o.manual = <<>> /\ o.generated = <<>> THEN <<"no_transcript">>
    ELSE <<>>

\* the texts the formatting loop collects: a dict or an object with a text
\* gives its text, anything else is skipped
RECURSIVE segment_texts(_)
segment_texts(data) ==
    IF data = <<>> THEN <<>>
    ELSE IF Head(data).shape \in {"dict", "object"}
         THEN <<Head(data).text>> \o segment_texts(Tail(data))
         ELSE segment_texts(Tail(data))

\* the transcript string before the emptiness check
format_transcript(data) ==
    Truncate(split_join(join(segment_texts(data))), MAX_TRANSCRIPT_CHARS, TranscriptMarker)

\* what transcript.fetch() can give: an exception or the segments
FetchOutcomes ==
    { [kind |-> "Exception", data |-> <<>>],
      [kind |-> "data", data |-> <<>>],
      [kind |-> "data", data |-> <<[shape |-> "dict", text |-> <<[c |-> " ", n |-> 2]>>],
                                   [shape |-> "other", text |-> <<[c |-> "x", n |-> 9]>>]>>],
      [kind |-> "data", data |-> <<[shape |-> "dict", text |-> <<[c |-> "x", n |-> 5]>>],
                                   [shape |-> "object", text |-> <<[c |-> "x", n |-> 3]>>]>>],
      [kind |-> "data", data |-> <<[shape |-> "dict",
                                    text |-> <<[c |-> "x", n |-> MAX_TRANSCRIPT_CHARS + 1]>>]>>] }

(***************************************************************************)
(* get_summary_from_llm                                                    *)
(***************************************************************************)

MAX_CONTENT_LENGTH == 80000

NoPrompt == [template |-> "none", source_url |-> <<>>, content |-> <<>>]

\* the prompt made with the web page template whatever the kind
build_prompt_web_template(c, source_url, is_youtube) ==
    [template |-> "web",
     source_url |-> source_url,
     content |-> Truncate(c, MAX_CONTENT_LENGTH, ContentMarker)]

\* the prompt made of the content as the fetcher returned it
build_prompt_untruncated(c, source_url, is_youtube) ==
    [template |-> IF is_youtube THEN "youtube" ELSE "web",
     source_url |-> source_url,
     content |-> c]

\* the prompt: the template of the kind, the URL and the truncated content
build_prompt(c, source_url, is_youtube) ==
    [template |-> IF is_youtube THEN "youtube" ELSE "web",
     source_url |-> source_url,
     content |-> Truncate(c, MAX_CONTENT_LENGTH, ContentMarker)]

\* whether get_summary_from_llm returns None before it calls the model
no_model_call(c) == ~llm \/ c = NoneText \/ c = <<>>

\* what generate_content can give: an exception, or a response with its
\* candidates, each with the texts of its content parts
NoResponse == [raised |-> FALSE, candidates |-> <<>>, none |-> TRUE]
Raises == [raised |-> TRUE, candidates |-> <<>>, none |-> FALSE]
Response(cs) == [raised |-> FALSE, candidates |-> cs, none |-> FALSE]

SummaryText == <<[c |-> " ", n |-> 1], [c |-> "x", n |-> 2], [c |-> " ", n |-> 1],
                 [c |-> "x", n |-> 1], [c |-> " ", n |-> 2]>>

ModelOutcomes ==
    { Raises,
      Response(<<>>),
      Response(<<[parts |-> <<>>]>>),
      Response(<<[parts |-> << <<>> >>]>>),
      Response(<<[parts |-> <<SummaryText>>]>>),
      Response(<<[parts |-> <<>>], [parts |-> <<SummaryText>>]>>) }

\* the summary get_summary_from_llm makes of the response: the stripped text
\* of the first part of the first candidate, None without one
summary_of(r) ==
    IF r.candidates # <<>> /\ r.candidates[1].parts # <<>>
    THEN strip(r.candidates[1].parts[1])
    ELSE NoneText

\* what future.result() leads to: the except branch for an exception
llm_result(r) == IF r.raised THEN NoneText ELSE summary_of(r)

(***************************************************************************)
(* The request handlers: summarize_ajax in steps, show_summary             *)
(***************************************************************************)

\* how many summarize requests a run of the model receives
MaxRequests == 2

Sessions == {"s1", "s2"}
NoToken == 0

\* the URLs the summarize requests carry
PipelineUrls ==
    { u \in UrlInputs :
        /\ u.sub = <<>> /\ u.id = GoodId /\ u.suffix = <<>>
        /\ \/ u.scheme = <<"h", "t", "t", "p", "s", ":", "/", "/">> /\ u.hostpath \in {2, 5}
           \/ u.scheme = <<>> /\ u.hostpath = 2
           \/ u.scheme = <<"h", "t", "t", "p", ":", "/">> /\ u.hostpath = 1
           \/ u.scheme = <<"f", "t", "p", ":", "/", "/">> /\ u.hostpath = 5 }

NoUrl == CHOOSE u \in PipelineUrls : u.scheme = <<>>

\* the bodies of the summarize requests: not JSON, JSON that is not an object
\* (an array), a JSON object without a url, a JSON object with one
Bodies ==
    {[is_json |-> FALSE, is_object |-> FALSE, has_url |-> FALSE, url |-> NoUrl],
     [is_json |-> TRUE, is_object |-> FALSE, has_url |-> FALSE, url |-> NoUrl],
     [is_json |-> TRUE, is_object |-> TRUE, has_url |-> FALSE, url |-> NoUrl]}
    \cup {[is_json |-> TRUE, is_object |-> TRUE, has_url |-> TRUE, url |-> u] : u \in PipelineUrls}

NoRequest == [session |-> "s1", body |-> CHOOSE b \in Bodies : ~b.is_json]

\* a response: the handler it comes from, the JSON status (or what a page
\* handler did; "raised" when an exception left the handler and the framework
\* answered), the status code, and which message it carries
NoReply == [to |-> "none", status |-> "none", code |-> 0, message |-> "none"]
Reply(to, status, code, message) ==
    [to |-> to, status |-> status, code |-> code, message |-> message]

\* the check of the fetcher's result left out
content_is_failure_skipped(c) == FALSE

\* summarize_ajax: if content is None
content_is_failure(c) == c = NoneText

\* the check of the summary left out
summary_is_failure_skipped(s) == FALSE

\* summarize_ajax: if summary is None
summary_is_failure(s) == s = NoneText

InitPipelineVars ==
    /\ session = [s \in Sessions |-> NoToken]
    /\ alarm = FALSE
    /\ n_requests = 0
    /\ pc = "idle"
    /\ req = NoRequest
    /\ transcript = NoTranscript
    /\ content = NoneText
    /\ exc = FALSE
    /\ prompt = NoPrompt
    /\ worker = "none"
    /\ model_response = NoResponse
    /\ summary = NoneText
    /\ response = NoReply
    /\ events = <<>>

\* the handler returns: its locals are gone
Respond(status, code, message) ==
    /\ response' = Reply("summarize_ajax", status, code, message)
    /\ pc' = "idle"
    /\ transcript' = NoTranscript
    /\ content' = NoneText
    /\ exc' = FALSE
    /\ prompt' = NoPrompt
    /\ worker' = "none"
    /\ model_response' = NoResponse
    /\ summary' = NoneText

TargetUrl == UrlOf(req.body.url)

IsYoutube == is_youtube_url(TargetUrl) # NoneStr

\* store_summary_data as the handler calls it: uuid4 returns tok and the file
\* is written, or open/json.dump raises after k pairs
PutOk(tok, summary_data) ==
    /\ uuid4(tok)
    /\ issued' = issued \cup {tok}
    /\ files' = store_summary_data(files, tok, summary_data)
    /\ stored' = [stored EXCEPT ![tok] = [put |-> TRUE, data |-> summary_data]]
    /\ taken' = [taken EXCEPT ![tok] = <<>>]

PutRaises(tok, summary_data, opened, k) ==
    /\ uuid4(tok)
    /\ issued' = issued \cup {tok}
    /\ files' = IF opened
                THEN [files EXCEPT ![tok] = File(PartialDump(summary_data, k))]
                ELSE files
    /\ UNCHANGED <<stored, taken>>

\* summarize_ajax up to the first blocking call of the fetcher it chose
Receive(s, b) ==
    /\ UNCHANGED <<publishVars, workers>>
    /\ pc = "idle"
    /\ n_requests < MaxRequests
    /\ n_requests' = n_requests + 1
    /\ req' = [session |-> s, body |-> b]
    /\ UNCHANGED <<call, ret, storeVars, configVars, session>>
    /\ IF ~b.is_json
       THEN /\ Respond("error", 400, "not_json")
            /\ events' = <<>>
            /\ UNCHANGED alarm
       ELSE IF ~b.is_object
       THEN \* data.get raises AttributeError before the handler's try
            /\ Respond("raised", 500, "AttributeError")
            /\ events' = <<>>
            /\ UNCHANGED alarm
       ELSE IF ~b.has_url
       THEN /\ Respond("error", 400, "no_url")
            /\ events' = <<>>
            /\ UNCHANGED alarm
       ELSE IF ~is_valid_url(UrlOf(b.url))
       THEN /\ Respond("error", 400, "invalid_url")
            /\ events' = <<>>
            /\ UNCHANGED alarm
       ELSE IF is_youtube_url(UrlOf(b.url)) # NoneStr
       THEN \* fetch_youtube_transcript: signal.signal raises ValueError
            \* outside the main thread, else the alarm is armed
            /\ response' = NoReply
            /\ UNCHANGED localVars
            /\ IF main_thread
               THEN /\ alarm' = TRUE
                    /\ pc' = "yt_list"
                    /\ events' = <<"fetch_transcript">>
               ELSE /\ pc' = "fetch_ret"
                    /\ events' = <<"fetch_transcript", "fetch_fail">>
                    /\ UNCHANGED alarm
       ELSE /\ response' = NoReply
            /\ pc' = "web_get"
            /\ events' = <<"fetch_page">>
            /\ UNCHANGED <<alarm, localVars>>

\* list_transcripts returns or raises; the transcript is selected
YtList(o) ==
    /\ UNCHANGED <<publishVars, workers>>
    /\ pc = "yt_list"
    /\ UNCHANGED <<call, ret, storeVars, configVars, session, n_requests, req, response>>
    /\ UNCHANGED <<content, exc, prompt, worker, model_response, summary>>
    /\ IF o.kind = "list" /\ select_transcript(o).found
       THEN /\ transcript' = select_transcript(o)
            /\ pc' = "yt_fetch"
            /\ events' = events \o video_events(o)
            /\ UNCHANGED alarm
       ELSE /\ alarm' = FALSE
            /\ pc' = "fetch_ret"
            /\ events' = events \o video_events(o) \o <<"fetch_fail">>
            /\ UNCHANGED transcript

\* transcript.fetch() returns or raises; the transcript is formatted
YtFetch(o) ==
    /\ UNCHANGED <<publishVars, workers>>
    /\ pc = "yt_fetch"
    /\ UNCHANGED <<call, ret, storeVars, configVars, session, n_requests, req, response>>
    /\ UNCHANGED <<transcript, exc, prompt, worker, model_response, summary>>
    /\ IF o.kind = "Exception"
       THEN /\ pc' = "yt_except"
            /\ UNCHANGED <<alarm, content, events>>
       ELSE /\ alarm' = FALSE
            /\ pc' = "fetch_ret"
            /\ IF format_transcript(o.data) = <<>>
               THEN /\ content' = NoneText
                    /\ events' = events \o <<"empty_text", "fetch_fail">>
               ELSE /\ content' = format_transcript(o.data)
                    /\ events' = Append(events, "fetch_ok")

\* the except branch that follows an exception of fetch(): return None
YtExcept ==
    /\ UNCHANGED <<publishVars, workers>>
    /\ pc = "yt_except"
    /\ pc' = "fetch_ret"
    /\ events' = Append(events, "fetch_fail")
    /\ UNCHANGED <<call, ret, storeVars, configVars, localVars>>
    /\ UNCHANGED <<session, alarm, n_requests, req, response>>

\* requests.get returns or raises; the page is parsed
WebGet(o) ==
    /\ UNCHANGED <<publishVars, workers>>
    /\ pc = "web_get"
    /\ pc' = "fetch_ret"
    /\ content' = fetch_page_content(o)
    /\ events' = events \o
                   (IF o.kind # "body" THEN <<"fetch_fail">>
                    ELSE IF page_text(o.text) = <<>> THEN <<"empty_text", "fetch_ok">>
                    ELSE <<"fetch_ok">>)
    /\ UNCHANGED <<call, ret, storeVars, configVars, session, alarm, n_requests, req, response>>
    /\ UNCHANGED <<transcript, exc, prompt, worker, model_response, summary>>

\* summarize_ajax after the fetcher: the error response, or
\* get_summary_from_llm up to future.result
FetchReturned ==
    /\ UNCHANGED <<publishVars, workers>>
    /\ pc = "fetch_ret"
    /\ UNCHANGED <<call, ret, storeVars, configVars, session, alarm, n_requests, req>>
    /\ IF exc
       THEN /\ Respond("error", 500, "unexpected")
            /\ UNCHANGED events
       ELSE IF content_is_failure(content)
       THEN /\ Respond("error", 400, IF IsYoutube THEN "transcript" ELSE "fetch")
            /\ UNCHANGED events
       ELSE IF no_model_call(content)
       THEN /\ summary' = NoneText
            /\ pc' = "llm_ret"
            /\ events' = events \o <<"llm_call", "llm_fail">>
            /\ UNCHANGED <<transcript, content, exc, prompt, worker, model_response, response>>
       ELSE /\ prompt' = build_prompt(content, TargetUrl, IsYoutube)
            /\ worker' = "running"
            /\ pc' = "llm_wait"
            /\ events' = events \o <<"llm_call", "model">>
            /\ UNCHANGED <<transcript, content, exc, model_response, summary, response>>

\* generate_content returns or raises in the executor's thread
WorkerReturns(r) ==
    /\ UNCHANGED <<publishVars, workers>>
    /\ worker = "running"
    /\ pc \in {"llm_wait", "llm_shutdown"}
    /\ worker' = "done"
    /\ model_response' = r
    /\ UNCHANGED <<call, ret, storeVars, configVars, requestVars>>
    /\ UNCHANGED <<transcript, content, exc, prompt, summary>>

\* generate_content never returns
WorkerHangs ==
    /\ UNCHANGED <<publishVars, workers>>
    /\ worker = "running"
    /\ worker' = "hung"
    /\ UNCHANGED <<call, ret, storeVars, configVars, requestVars>>
    /\ UNCHANGED <<transcript, content, exc, prompt, model_response, summary>>

\* future.result(timeout=90) returns the response or raises the call's exception
LlmResult ==
    /\ UNCHANGED <<publishVars, workers>>
    /\ pc = "llm_wait"
    /\ worker = "done"
    /\ summary' = llm_result(model_response)
    /\ pc' = "llm_ret"
    /\ events' = events \o
                   (IF model_response.raised THEN <<"llm_fail">>
                    ELSE IF llm_result(model_response) = NoneText THEN <<"response", "llm_fail">>
                    ELSE <<"response", "llm_ok">>)
    /\ UNCHANGED <<call, ret, storeVars, configVars, session, alarm, n_requests, req, response>>
    /\ UNCHANGED <<transcript, content, exc, prompt, worker, model_response>>

\* future.result(timeout=90) raises TimeoutError: future.cancel(), return None,
\* and the with block's exit calls executor.shutdown(wait=True)
LlmTimeout ==
    /\ UNCHANGED <<publishVars, workers>>
    /\ pc = "llm_wait"
    /\ worker \in {"running", "hung"}
    /\ pc' = "llm_shutdown"
    /\ events' = Append(events, "llm_timeout")
    /\ UNCHANGED <<call, ret, storeVars, configVars, localVars>>
    /\ UNCHANGED <<session, alarm, n_requests, req, response>>

\* shutdown(wait=True) returns once the thread has finished; None is returned
LlmShutdownDone ==
    /\ UNCHANGED <<publishVars, workers>>
    /\ pc = "llm_shutdown"
    /\ worker = "done"
    /\ summary' = NoneText
    /\ pc' = "llm_ret"
    /\ events' = Append(events, "llm_fail")
    /\ UNCHANGED <<call, ret, storeVars, configVars, session, alarm, n_requests, req, response>>
    /\ UNCHANGED <<transcript, content, exc, prompt, worker, model_response>>

\* summarize_ajax after get_summary_from_llm: the error response, or the
\* HTML, the put, the session entry and the success response
LlmReturned ==
    /\ UNCHANGED <<publishVars, workers>>
    /\ pc = "llm_ret"
    /\ UNCHANGED <<call, ret, configVars, alarm, n_requests, req>>
    /\ IF summary_is_failure(summary)
       THEN /\ Respond("error", 500, "summary")
            /\ UNCHANGED <<storeVars, session, events>>
       ELSE \E tok \in Tokens :
              \/ /\ PutOk(tok, SummaryData(TargetUrl, summary))
                 /\ session' = [session EXCEPT ![req.session] = tok]
                 /\ Respond("success", 200, "redirect")
                 /\ events' = events \o <<"put", "put_ok">>
              \/ \E opened \in BOOLEAN, k \in 0..1 :
                   /\ PutRaises(tok, SummaryData(TargetUrl, summary), opened, k)
                   /\ Respond("error", 500, "store")
                   /\ events' = events \o <<"put", "put_fail">>
                   /\ UNCHANGED session

\* a pending SIGALRM is delivered: timeout_handler raises TimeoutException in
\* the main thread, wherever that thread is
TimerFire ==
    /\ UNCHANGED <<publishVars, workers>>
    /\ alarm
    /\ alarm' = FALSE
    /\ UNCHANGED <<call, ret, storeVars, configVars, session, n_requests, req>>
    /\ CASE pc \in {"yt_list", "yt_fetch", "web_get"} ->
              \* caught inside the fetcher, which returns None
              /\ pc' = "fetch_ret"
              /\ content' = NoneText
              /\ events' = events \o <<"timeout", "fetch_fail">>
              /\ UNCHANGED <<transcript, exc, prompt, worker, model_response, summary, response>>
         [] pc = "yt_except" ->
              \* raised inside an except branch: it leaves the fetcher
              /\ pc' = "fetch_ret"
              /\ exc' = TRUE
              /\ events' = events \o <<"timeout", "fetch_raise">>
              /\ UNCHANGED <<transcript, content, prompt, worker, model_response, summary, response>>
         [] pc \in {"fetch_ret", "llm_ret"} ->
              \* caught by the handler's own except Exception
              /\ Respond("error", 500, "unexpected")
              /\ events' = Append(events, "timeout")
         [] pc = "llm_wait" ->
              \* leaves the with block through shutdown(wait=True)
              /\ pc' = "llm_shutdown"
              /\ events' = Append(events, "timeout")
              /\ UNCHANGED <<localVars, response>>
         [] pc = "llm_shutdown" ->
              \* interrupts the join; get_summary_from_llm catches it
              /\ pc' = "llm_ret"
              /\ summary' = NoneText
              /\ events' = events \o <<"timeout", "llm_fail">>
              /\ UNCHANGED <<transcript, content, exc, prompt, worker, model_response, response>>
         [] pc = "idle" ->
              \* no handler is running: no request sees it
              /\ UNCHANGED <<localVars, pc, response, events>>

\* session.get('summary_id') in place of the pop: the token stays
pop_summary_id_kept(s) == session

\* session.pop('summary_id', None): the session of the response holds no token
pop_summary_id(s) == [session EXCEPT ![s] = NoToken]

\* show_summary
ShowSummary(s) ==
    /\ UNCHANGED <<publishVars, workers>>
    /\ pc = "idle"
    /\ session' = pop_summary_id(s)
    /\ UNCHANGED <<call, ret, configVars, localVars, alarm, n_requests, pc, req, events>>
    /\ IF session[s] = NoToken
       THEN /\ response' = Reply("show_summary", "redirect", 302, "info_no_summary")
            /\ UNCHANGED storeVars
       ELSE LET r == retrieve_summary_data(files, session[s])
            IN  /\ files' = r.files
                /\ taken' = [taken EXCEPT ![session[s]] = Append(@, r.result)]
                /\ UNCHANGED <<issued, stored>>
                /\ response' = IF r.result.raised THEN Reply("show_summary", "error", 500, "exception")
                               ELSE IF ~r.result.found THEN Reply("show_summary", "redirect", 302, "error_not_retrieved")
                               ELSE Reply("show_summary", "render", 200, "summary")

(***************************************************************************)
(* The publisher: send_to_karakeep with get_short_title_from_llm,          *)
(* get_karakeep_list_id and send_summary_to_karakeep                       *)
(***************************************************************************)

\* how many publish requests a run of the model receives
MaxPublishes == 2

\* the three Karakeep settings: whether the environment sets each of them
Settings ==
    [KARAKEEP_API_URL : BOOLEAN, KARAKEEP_API_KEY : BOOLEAN, KARAKEEP_LIST_NAME : BOOLEAN]

AllSettings ==
    [KARAKEEP_API_URL |-> TRUE, KARAKEEP_API_KEY |-> TRUE, KARAKEEP_LIST_NAME |-> TRUE]

\* Config.is_karakeep_enabled()
is_karakeep_enabled ==
    karakeep.KARAKEEP_API_URL /\ karakeep.KARAKEEP_API_KEY /\ karakeep.KARAKEEP_LIST_NAME

\* routes.py: KARAKEEP_ENABLED = Config.KARAKEEP_ENABLED.  KARAKEEP_ENABLED is
\* a property of Config instances; read on the class it is the property
\* object itself, which is truthy whatever the settings are
KARAKEEP_ENABLED == TRUE

\* an id as the service's JSON gives it: a number, a string, or none (null or
\* no such field); v holds its digits or characters
NoId == [t |-> "none", v |-> ""]
IntId(v) == [t |-> "int", v |-> v]
StrId(v) == [t |-> "str", v |-> v]

\* str(x)
str(x) == [t |-> "str", v |-> IF x.t = "none" THEN "None" ELSE x.v]

\* bool(x) of an id
truthy(x) == x.t # "none" /\ x.v # "" /\ ~(x.t = "int" /\ x.v = "0")

\* Config.KARAKEEP_LIST_NAME
list_name == "Summaries"

\* an item of the lists response: a dict with a name and an id, or something else
Entry(name, id) == [is_dict |-> TRUE, name |-> name, id |-> id]
NotADict == [is_dict |-> FALSE, name |-> "", id |-> NoId]

\* a value under a key of a dict response: a list of items, or not a list
ListValue(key, entries) == [key |-> key, is_list |-> TRUE, entries |-> entries]
OtherValue(key) == [key |-> key, is_list |-> FALSE, entries |-> <<>>]

\* the possible_keys with another key of dict responses in front
possible_keys_with_folders == <<"folders", "data", "results", "items", "lists">>

\* the possible_keys tried from the last to the first
possible_keys_reversed == <<"lists", "items", "results", "data">>

possible_keys == <<"data", "results", "items", "lists">>

\* actual_list_data: the response itself when it is a list, the value of the
\* first of possible_keys that holds a list when it is a dict, None otherwise
actual_list_data(response_data) ==
    IF response_data.kind = "list"
    THEN [none |-> FALSE, entries |-> response_data.entries]
    ELSE IF response_data.kind = "dict"
    THEN LET holds(i) == \E j \in DOMAIN response_data.keys :
                            /\ response_data.keys[j].key = possible_keys[i]
                            /\ response_data.keys[j].is_list
             hits == {i \in DOMAIN possible_keys : holds(i)}
             first == CHOOSE i \in hits : \A k \in hits : i <= k
             at == CHOOSE j \in DOMAIN response_data.keys :
                     response_data.keys[j].key = possible_keys[first]
         IN  IF hits = {}
             THEN [none |-> TRUE, entries |-> <<>>]
             ELSE [none |-> FALSE, entries |-> response_data.keys[at].entries]
    ELSE [none |-> TRUE, entries |-> <<>>]

\* the loop over the items: the id, as a string, of the first dict whose name
\* is list_name and whose id is truthy; None when there is none
find_list_id(entries) ==
    LET hits == {i \in DOMAIN entries :
                   /\ entries[i].is_dict
                   /\ entries[i].name = list_name
                   /\ truthy(entries[i].id)}
    IN  IF hits = {}
        THEN NoId
        ELSE str(entries[CHOOSE i \in hits : \A k \in hits : i <= k].id)

\* get_karakeep_list_id once the GET has answered
get_karakeep_list_id(response_data) ==
    IF actual_list_data(response_data).none
    THEN NoId
    ELSE find_list_id(actual_list_data(response_data).entries)

\* no GET /lists has answered
NoListsResponse == [kind |-> "none", entries |-> <<>>, keys |-> <<>>]

\* what GET /lists can give: an exception of requests, a body that is not
\* JSON, or the JSON value
ListsOutcomes ==
    { [kind |-> "RequestException", entries |-> <<>>, keys |-> <<>>],
      [kind |-> "other", entries |-> <<>>, keys |-> <<>>],
      [kind |-> "list", keys |-> <<>>,
       entries |-> <<NotADict, Entry("Inbox", IntId("3")), Entry(list_name, IntId("7"))>>],
      [kind |-> "list", keys |-> <<>>,
       entries |-> <<Entry(list_name, NoId), Entry("Inbox", StrId("L3"))>>],
      [kind |-> "dict", entries |-> <<>>,
       keys |-> <<ListValue("lists", <<Entry(list_name, StrId("L9"))>>),
                  OtherValue("data"),
                  ListValue("items", <<Entry(list_name, StrId("L8"))>>)>>],
      [kind |-> "dict", entries |-> <<>>,
       keys |-> <<OtherValue("data"),
                  ListValue("folders", <<Entry(list_name, StrId("L8"))>>)>>],
      [kind |-> "list", keys |-> <<>>,
       entries |-> <<Entry(list_name, NoId), Entry(list_name, IntId("5"))>>],
      [kind |-> "dict", entries |-> <<>>,
       keys |-> <<ListValue("lists", <<Entry(list_name, StrId("L9"))>>),
                  ListValue("results", <<Entry("Inbox", StrId("L3"))>>)>>] }

\* a title: None, or its text
NoTitle == [none |-> TRUE, text |-> <<>>]
Title(t) == [none |-> FALSE, text |-> t]

\* a text of n words, gap whitespace characters between two of them
Words(n, gap) ==
    IF n = 0
    THEN <<>>
    ELSE [i \in 1..(2 * n - 1) |->
            IF i % 2 = 1 THEN [c |-> "x", n |-> 3] ELSE [c |-> " ", n |-> gap]]

DoubleQuote == <<[c |-> "\"", n |-> 1]>>
SingleQuote == <<[c |-> "'", n |-> 1]>>

\* what the title call can give: an exception, a time-out of future.result, a
\* response without candidates, or a text (in quotes or not)
TitleOutcomes ==
    { [kind |-> "raises", text |-> <<>>],
      [kind |-> "timeout", text |-> <<>>],
      [kind |-> "no_candidates", text |-> <<>>],
      [kind |-> "text", text |-> DoubleQuote \o DoubleQuote],
      [kind |-> "text", text |-> DoubleQuote \o Words(3, 1) \o DoubleQuote],
      [kind |-> "text", text |-> Words(12, 1)],
      [kind |-> "text", text |-> Words(13, 1)] }

\* title.strip('"\''): the quote characters at both ends removed
RECURSIVE strip_quotes(_)
strip_quotes(t) ==
    IF t # <<>> /\ Head(t).c \in {"\"", "'"} THEN strip_quotes(Tail(t))
    ELSE IF t # <<>> /\ t[Len(t)].c \in {"\"", "'"}
    THEN strip_quotes(SubSeq(t, 1, Len(t) - 1))
    ELSE t

\* t.split(): the words of t, in order
RECURSIVE split(_)
split(t) ==
    LET s == LStrip(t)
        spaces == {i \in 1..Len(s) : s[i].c = " "}
        k == IF spaces = {} THEN Len(s) + 1
             ELSE CHOOSE i \in spaces : \A j \in spaces : i <= j
    IN  IF s = <<>> THEN <<>>
        ELSE <<SubSeq(s, 1, k - 1)>> \o split(SubSeq(s, k + 1, Len(s)))

\* the title cut whenever it has more than 10 words
get_short_title_cut_at_10(o) ==
    IF o.kind # "text" THEN NoTitle
    ELSE LET title == strip_quotes(strip(o.text))
         IN  IF Len(split(title)) > 10
             THEN Title(join(SubSeq(split(title), 1, 10)) \o <<[c |-> "...", n |-> 3]>>)
             ELSE Title(title)

\* get_short_title_from_llm once the call has answered: the text without
\* surrounding whitespace and then without surrounding quotes; with more than
\* 12 words, its first 10 words joined by one space each and "..."
get_short_title_from_llm(o) ==
    IF o.kind # "text" THEN NoTitle
    ELSE LET title == strip_quotes(strip(o.text))
         IN  IF Len(split(title)) > 12
             THEN Title(join(SubSeq(split(title), 1, 10)) \o <<[c |-> "...", n |-> 3]>>)
             ELSE Title(title)

\* karakeep_title is None in place of not karakeep_title
title_is_falsy_none_only(t) == t.none

\* not karakeep_title
title_is_falsy(t) == t.none \/ t.text = <<>>

\* the form fields of a publish request; "" is a missing or empty field
Forms == [original_url : {"", "u1"}, summary_markdown : {"", "m1"}]
NoForm == [original_url |-> "", summary_markdown |-> ""]

\* an outbound call: the title call, GET lists, POST bookmarks, or PUT link
\* with the list and bookmark ids of its URL; result tells how it went once it
\* has answered
Outbound(c, l, b) == [call |-> c, list |-> l, bookmark |-> b, result |-> "pending"]

\* a bookmark of the service: what the POST carried and the list it is linked to
Bookmark(title, f, l) ==
    [title |-> title, text |-> f.summary_markdown, url |-> f.original_url, list |-> l]

\* what POST /bookmarks can give: no bookmark and an error, or a bookmark and
\* a 2xx response with or without its id
CreateOutcomes == {"RequestException", "HTTPError", "created", "created_no_id"}

\* what PUT /lists/<id>/bookmarks/<id> can give
LinkOutcomes == {"RequestException", "HTTPError", "linked"}

NoNotice == [category |-> "none", message |-> "none"]
flash(message, category) == [category |-> category, message |-> message]

InitPublishVars ==
    /\ n_publishes = 0
    /\ ppc = "idle"
    /\ form = NoForm
    /\ karakeep_title = NoTitle
    /\ karakeep_list_id = NoId
    /\ new_bookmark_id = NoId
    /\ lists_response = NoListsResponse
    /\ outbound = <<>>
    /\ bookmarks = <<>>
    /\ notice = NoNotice

Init ==
    /\ call = [fn |-> "app"]
    /\ ret = NotCalled
    /\ InitStoreVars
    /\ main_thread \in BOOLEAN
    /\ llm \in BOOLEAN
    /\ karakeep = AllSettings
    /\ InitPipelineVars
    /\ InitPublishVars

Next ==
    \/ \E s \in Sessions, b \in Bodies : Receive(s, b)
    \/ \E o \in ListOutcomes : YtList(o)
    \/ \E o \in FetchOutcomes : YtFetch(o)
    \/ YtExcept
    \/ \E o \in WebOutcomes : WebGet(o)
    \/ FetchReturned
    \/ \E r \in ModelOutcomes : WorkerReturns(r)
    \/ WorkerHangs
    \/ LlmResult
    \/ LlmTimeout
    \/ LlmShutdownDone
    \/ LlmReturned
    \/ TimerFire
    \/ \E s \in Sessions : ShowSummary(s)

Spec == Init /\ [][Next]_vars

(***************************************************************************)
(* The store on its own: puts and takes in any order                       *)
(***************************************************************************)

InitStore ==
    /\ call = [fn |-> "store"]
    /\ ret = NotCalled
    /\ InitStoreVars
    /\ main_thread = TRUE
    /\ llm = TRUE
    /\ karakeep = AllSettings
    /\ InitPipelineVars
    /\ InitPublishVars

\* put: store_summary_data(summary_data) returns tok
StorePut(tok, summary_data) ==
    /\ UNCHANGED <<publishVars, workers>>
    /\ PutOk(tok, summary_data)
    /\ UNCHANGED <<call, ret, configVars, localVars, requestVars>>

\* put fails: open or json.dump raises, after k pairs reached the file (no
\* file at all when open itself failed); no token is returned
StorePutFails(tok, summary_data, opened, k) ==
    /\ UNCHANGED <<publishVars, workers>>
    /\ PutRaises(tok, summary_data, opened, k)
    /\ UNCHANGED <<call, ret, configVars, localVars, requestVars>>

\* take: retrieve_summary_data(tok)
StoreTake(tok) ==
    /\ UNCHANGED <<publishVars, workers>>
    /\ Len(taken[tok]) < MaxTakes
    /\ LET r == retrieve_summary_data(files, tok)
       IN  /\ files' = r.files
           /\ taken' = [taken EXCEPT ![tok] = Append(@, r.result)]
    /\ UNCHANGED <<call, ret, issued, stored, configVars, localVars, requestVars>>

NextStore ==
    \/ \E tok \in Tokens, d \in StorePayloads : StorePut(tok, d)
    \/ \E tok \in Tokens, d \in StorePayloads, opened \in BOOLEAN, k \in 0..1 :
         StorePutFails(tok, d, opened, k)
    \/ \E tok \in Tokens : StoreTake(tok)

SpecStore == InitStore /\ [][NextStore]_vars

(***************************************************************************)
(* Pure functions run on their own: call holds the function and its        *)
(* argument, ret what it returned                                          *)
(***************************************************************************)

\* the transcript lists of the videos: up to two manually created and up to
\* two generated transcripts, each in a language of its own
TranscriptLists ==
    LET languages == {"en", "en-GB", "de"}
        codes == {<<>>} \cup {<<l>> : l \in languages}
                   \cup {p \in languages \X languages : p[1] # p[2]}
    IN  [kind : {"list"}, manual : codes, generated : codes]

InitClassify ==
    /\ call \in [fn : {"is_valid_url", "is_youtube_url"}, arg : UrlInputs]
                  \cup [fn : {"select_transcript"}, arg : TranscriptLists]
    /\ ret = NotCalled
    /\ InitStoreVars
    /\ main_thread = TRUE
    /\ llm = TRUE
    /\ karakeep = AllSettings
    /\ InitPipelineVars
    /\ InitPublishVars

CallIsValidUrl ==
    /\ UNCHANGED <<publishVars, workers>>
    /\ call.fn = "is_valid_url"
    /\ ~ret.done
    /\ ret' = Returned(is_valid_url(UrlOf(call.arg)))
    /\ UNCHANGED <<call, storeVars, configVars, localVars, requestVars>>

CallIsYoutubeUrl ==
    /\ UNCHANGED <<publishVars, workers>>
    /\ call.fn = "is_youtube_url"
    /\ ~ret.done
    /\ ret' = Returned(is_youtube_url(UrlOf(call.arg)))
    /\ UNCHANGED <<call, storeVars, configVars, localVars, requestVars>>

\* fetch_youtube_transcript from the transcript list to the transcript it
\* will fetch
CallSelectTranscript ==
    /\ call.fn = "select_transcript"
    /\ ~ret.done
    /\ ret' = Returned(select_transcript(call.arg))
    /\ UNCHANGED <<call, storeVars, configVars, localVars, requestVars, publishVars, workers>>

NextClassify == CallIsValidUrl \/ CallIsYoutubeUrl \/ CallSelectTranscript

SpecClassify == InitClassify /\ [][NextClassify]_vars

(***************************************************************************)
(* Claims                                                                  *)
(***************************************************************************)

\* C1: for every token a put returned, the first take of it since the put
\* returned exactly the payload given to the put, and every later take of it
\* returned absent, whatever other puts and takes happened in between.
C1_RoundTrip ==
    \A t \in Tokens :
        stored[t].put =>
            /\ Len(taken[t]) >= 1 => taken[t][1] = Found(stored[t].data)
            /\ \A i \in 2..Len(taken[t]) : taken[t][i] = Absent

\* a token taken twice after its put, with another token put and taken too
C1_Witness ==
    \E t, u \in Tokens :
        /\ t # u
        /\ stored[t].put /\ Len(taken[t]) >= 2
        /\ stored[u].put /\ Len(taken[u]) >= 1
        /\ stored[t].data # stored[u].data

\* C2: when future.result times out with the model call still running, the
\* function has returned: it is never found waiting for that call to finish.
C2_TimeoutReturnsAtOnce ==
    (\E i \in DOMAIN events : events[i] = "llm_timeout") => pc # "llm_shutdown"

\* C3: when the timer fires during a call of fetch_youtube_transcript, the
\* call returns Failure to summarize_ajax (it returns None, it does not raise).
C3_TimeoutReturnsFailure ==
    ( /\ pc = "fetch_ret"
      /\ events # <<>> /\ events[1] = "fetch_transcript"
      /\ \E i \in DOMAIN events : events[i] = "timeout" )
    => (~exc /\ content = NoneText)

Has(e) == \E i \in DOMAIN events : events[i] = e
Count(es) == Cardinality({i \in DOMAIN events : events[i] \in es})
Before(a, b) ==
    \A i \in DOMAIN events : events[i] = b => \E j \in 1..(i - 1) : events[j] = a

\* C4: in one summarize request get_summary_from_llm is called, and the model
\* invoked, only after a fetcher returned content, and store_summary_data is
\* called only after the model call returned a summary; while the model call
\* runs the handler holds that content.
C4_StagesInOrder ==
    /\ Before("fetch_ok", "llm_call")
    /\ Before("llm_call", "model")
    /\ Before("llm_ok", "put")
    /\ events # <<>> => events[1] \in {"fetch_transcript", "fetch_page"}
    /\ worker # "none" => (content # NoneText /\ TLen(content) > 0)

\* a request that went through the three stages
C4_Witness ==
    /\ pc = "idle"
    /\ Has("fetch_ok") /\ Has("model") /\ Has("llm_ok") /\ Has("put_ok")
    /\ response.status = "success"

FetchCalls == {"fetch_transcript", "fetch_page"}
StageCalls == FetchCalls \cup {"llm_call", "model", "put"}
StageFailures == {"fetch_fail", "fetch_raise", "llm_fail", "put_fail"}

\* C5: in one summarize request a fetcher, the model and the store put are
\* each invoked at most once; after a stage failed no stage is invoked, and the
\* request ends with an error response.
C5_NoRetry ==
    /\ Count(FetchCalls) <= 1
    /\ Count({"llm_call"}) <= 1
    /\ Count({"model"}) <= 1
    /\ Count({"put"}) <= 1
    /\ \A i, j \in DOMAIN events :
         (i < j /\ events[i] \in StageFailures) => events[j] \notin StageCalls
    /\ (pc = "idle" /\ response.to = "summarize_ajax" /\ Count(StageFailures) > 0)
         => response.status = "error"

\* a request whose model call timed out and that ended with an error response
C5_Witness ==
    /\ pc = "idle"
    /\ response.to = "summarize_ajax"
    /\ response.status = "error"
    /\ Has("llm_timeout") /\ Has("llm_fail")

\* whether the URL of an input has no http/https scheme or no host
LacksSchemeOrHost(u) ==
    \/ u.scheme \in {<<>>, <<"f", "t", "p", ":", "/", "/">>, <<"h", "t", "t", "p", ":", "/">>}
    \/ UrlHostPaths[u.hostpath][1] = "/"

\* C6: a summarize request whose url has no http/https scheme or no host is
\* answered with the invalid-url error, status 400, and no fetcher, model call
\* or put was invoked for it.
C6_InvalidUrlRejectedFirst ==
    (n_requests > 0 /\ req.body.is_json /\ req.body.has_url /\ LacksSchemeOrHost(req.body.url))
    => /\ pc = "idle"
       /\ events = <<>>
       /\ response.to = "summarize_ajax" =>
            response = Reply("summarize_ajax", "error", 400, "invalid_url")

\* a rejected url that matches a YouTube pattern
C6_Witness ==
    /\ n_requests > 0 /\ req.body.is_json /\ req.body.has_url
    /\ LacksSchemeOrHost(req.body.url)
    /\ is_youtube_url(UrlOf(req.body.url)) # NoneStr
    /\ response = Reply("summarize_ajax", "error", 400, "invalid_url")

\* C7: for a URL of one of the four shapes with an 11-character id,
\* is_youtube_url returns that id; when the URL also matches an earlier pattern
\* of the list (here the watch URL in its query), it returns the id that
\* pattern isolates.
C7_ExtractsId ==
    ( /\ ret.done /\ call.fn = "is_youtube_url"
      /\ call.arg.hostpath \in 1..4 /\ call.arg.id = GoodId )
    => ret.value = IF call.arg.suffix = WatchSuffix /\ call.arg.hostpath > 1
                   THEN OtherId
                   ELSE GoodId

\* an embed URL whose query matches the watch pattern
C7_Witness ==
    /\ ret.done /\ call.fn = "is_youtube_url"
    /\ call.arg.hostpath = 3 /\ call.arg.id = GoodId /\ call.arg.suffix = WatchSuffix
    /\ ret.value = OtherId

\* whether an input is a YouTube video URL of a recognized shape: a YouTube
\* host, one of the four paths, and an id segment of exactly 11 id characters
RecognizedShape(u) ==
    /\ u.hostpath \in 1..4
    /\ u.id = GoodId

\* C8: every valid URL that is not a YouTube video URL of a recognized shape
\* is classified as a web page: is_youtube_url returns None for it.
C8_OthersAreWebPages ==
    ( /\ ret.done /\ call.fn = "is_youtube_url"
      /\ is_valid_url(UrlOf(call.arg))
      /\ ~RecognizedShape(call.arg) )
    => ret.value = NoneStr

\* C9: what a fetcher returns on success is never empty, and a page or
\* transcript whose extracted text is empty ends the request with the fetch
\* error, the model not invoked.
C9_NeverEmptyOnSuccess ==
    /\ (pc = "fetch_ret" /\ ~exc /\ content # NoneText) => TLen(content) > 0
    /\ (pc = "idle" /\ response.to = "summarize_ajax" /\ Has("empty_text"))
         => (response.message \in {"fetch", "transcript"} /\ ~Has("model"))

\* whether a response has a candidate with non-empty text content
HasNonEmptyText(r) ==
    \E i \in DOMAIN r.candidates :
        \E j \in DOMAIN r.candidates[i].parts : TLen(r.candidates[i].parts[j]) > 0

\* C10: once the model response was read, get_summary_from_llm returns a
\* summary exactly when the response has a candidate with non-empty text.
C10_SuccessIffNonEmptyText ==
    (pc = "llm_ret" /\ Has("response"))
    => ((summary # NoneText) <=> HasNonEmptyText(model_response))

\* C11: every record a summarize request put into the store has a non-empty
\* summary_markdown and a non-empty summary_html.
C11_StoredSummaryNonEmpty ==
    \A t \in Tokens :
        stored[t].put =>
            /\ TLen(stored[t].data.summary_markdown) > 0
            /\ TLen(stored[t].data.summary_html) > 0

ValidationFailures == {"not_json", "no_url", "invalid_url"}
DownstreamFailures == {"transcript", "fetch", "summary", "store"}

\* C12: an error response of a summarize request has status code 400 exactly
\* when it reports a validation failure (not JSON, no url, invalid url), and
\* 500 when it reports a fetch, transcript, summarization or storage failure.
C12_StatusCodes ==
    (response.to = "summarize_ajax" /\ response.status = "error")
    => /\ response.code = 400 <=> response.message \in ValidationFailures
       /\ response.message \in DownstreamFailures => response.code = 500

\* C13: every summarize request that has ended was answered by the handler
\* with a JSON response whose status is success or error; no exception left
\* the handler.
C13_AlwaysJsonResponse ==
    (pc = "idle" /\ response.to = "summarize_ajax")
    => response.status \in {"success", "error"}

(***************************************************************************)
(* show_summary on its own: the session is a cookie the client holds, so a *)
(* request can present any token an earlier response put into it           *)
(***************************************************************************)

\* the category show_summary gives flash() with each of its notices
flash_category(message) ==
    CASE message = "info_no_summary" -> "info"
      [] message = "error_not_retrieved" -> "error"
      [] OTHER -> "none"

\* a request arrives whose session cookie holds a token a put returned
SessionHolds(s, tok) ==
    /\ UNCHANGED <<publishVars, workers>>
    /\ stored[tok].put
    /\ Len(taken[tok]) < MaxTakes
    /\ session' = [session EXCEPT ![s] = tok]
    /\ UNCHANGED <<call, ret, storeVars, configVars, localVars>>
    /\ UNCHANGED <<alarm, n_requests, pc, req, response, events>>

InitShow ==
    /\ call = [fn |-> "show_summary"]
    /\ ret = NotCalled
    /\ InitStoreVars
    /\ main_thread = TRUE
    /\ llm = TRUE
    /\ karakeep = AllSettings
    /\ InitPipelineVars
    /\ InitPublishVars

NextShow ==
    \/ \E tok \in Tokens, d \in StorePayloads : StorePut(tok, d)
    \/ \E s \in Sessions, tok \in Tokens : SessionHolds(s, tok)
    \/ \E s \in Sessions : ShowSummary(s)

SpecShow == InitShow /\ [][NextShow]_vars

\* C14: a show_summary request that found no token in the session, or no
\* record behind the token, redirected with a notice of the info category.
C14_MissingIsInfo ==
    (response.to = "show_summary"
       /\ response.message \in {"info_no_summary", "error_not_retrieved"})
    => (response.status = "redirect" /\ flash_category(response.message) = "info")

\* whether the record of a token exists and does not hold a whole document
Corrupt(fs, t) == fs[t].exists /\ ~fs[t].data.closed

\* C15: a take of a token whose record exists but is corrupt returns absent
\* (it does not raise) and leaves no record behind that token.
C15_CorruptIsAbsentAndDeleted ==
    [][\A t \in Tokens :
         (Corrupt(files, t) /\ Len(taken'[t]) = Len(taken[t]) + 1)
         => (taken'[t][Len(taken'[t])] = Absent /\ ~files'[t].exists)]_vars

(***************************************************************************)
(* The publish request: send_to_karakeep in steps                          *)
(***************************************************************************)

\* the decimal digits of the ids the bookmark service hands out, in order
BookmarkIds == <<"1", "2", "3", "4", "5", "6", "7", "8", "9">>

\* requests.post / requests.put never raising and raise_for_status left out
raises_never(o) == FALSE

\* raise_for_status left out: only a transport error counts as a failed call
raises_only_transport(o) == o = "RequestException"

\* whether requests.post / requests.put or raise_for_status raises
raises(o) == o \in {"RequestException", "HTTPError"}

\* an id taken to be in every answer to the POST
created_id_assumed(o, k) == IntId(BookmarkIds[k])

\* created_bookmark_data.get('id') of the answer to the POST that created the
\* k-th bookmark
created_id(o, k) == IF o = "created" THEN IntId(BookmarkIds[k]) ELSE NoId

\* the last outbound call has answered: history of how it went
Answered(result) == [outbound EXCEPT ![Len(outbound)].result = result]

\* the handler flashes a notice and redirects: its locals are gone
Flash(message, category) ==
    /\ notice' = flash(message, category)
    /\ ppc' = "idle"
    /\ karakeep_title' = NoTitle
    /\ karakeep_list_id' = NoId
    /\ new_bookmark_id' = NoId

\* send_to_karakeep up to the model call of get_short_title_from_llm
PubReceive(f) ==
    /\ ppc = "idle"
    /\ n_publishes < MaxPublishes
    /\ n_publishes' = n_publishes + 1
    /\ form' = f
    /\ lists_response' = NoListsResponse
    /\ UNCHANGED <<call, ret, storeVars, configVars, localVars, requestVars, workers, bookmarks>>
    /\ IF ~KARAKEEP_ENABLED
       THEN Flash("not_enabled", "error") /\ outbound' = <<>>
       ELSE IF f.original_url = ""
       THEN Flash("missing_url", "error") /\ outbound' = <<>>
       ELSE IF f.summary_markdown = ""
       THEN Flash("missing_summary", "error") /\ outbound' = <<>>
       ELSE IF ~llm
       THEN Flash("title_failed", "error") /\ outbound' = <<>>
       ELSE /\ outbound' = <<Outbound("title", NoId, NoId)>>
            /\ ppc' = "title"
            /\ notice' = NoNotice
            /\ UNCHANGED <<karakeep_title, karakeep_list_id, new_bookmark_id>>

\* the title call answers; get_karakeep_list_id up to its GET
PubTitle(o) ==
    /\ ppc = "title"
    /\ UNCHANGED <<call, ret, storeVars, configVars, localVars, requestVars, workers>>
    /\ UNCHANGED <<n_publishes, form, lists_response, bookmarks>>
    /\ IF title_is_falsy(get_short_title_from_llm(o))
       THEN Flash("title_failed", "error") /\ outbound' = Answered("failed")
       ELSE IF ~is_karakeep_enabled
       THEN Flash("list_not_found", "error") /\ outbound' = Answered("clean")
       ELSE /\ karakeep_title' = get_short_title_from_llm(o)
            /\ outbound' = Append(Answered("clean"), Outbound("GET lists", NoId, NoId))
            /\ ppc' = "lists"
            /\ UNCHANGED <<karakeep_list_id, new_bookmark_id, notice>>

\* GET /lists answers; send_summary_to_karakeep up to its POST
PubLists(response_data) ==
    /\ ppc = "lists"
    /\ lists_response' = response_data
    /\ UNCHANGED <<call, ret, storeVars, configVars, localVars, requestVars, workers>>
    /\ UNCHANGED <<n_publishes, form, bookmarks>>
    /\ IF ~truthy(get_karakeep_list_id(response_data))
       THEN Flash("list_not_found", "error") /\ outbound' = Answered("failed")
       ELSE /\ karakeep_list_id' = get_karakeep_list_id(response_data)
            /\ outbound' = Append(Answered("clean"), Outbound("POST bookmarks", NoId, NoId))
            /\ ppc' = "create"
            /\ UNCHANGED <<karakeep_title, new_bookmark_id, notice>>

\* POST /bookmarks answers; send_summary_to_karakeep up to its PUT
PubCreate(o) ==
    /\ ppc = "create"
    /\ Len(bookmarks) < Len(BookmarkIds)
    /\ UNCHANGED <<call, ret, storeVars, configVars, localVars, requestVars, workers>>
    /\ UNCHANGED <<n_publishes, form, lists_response>>
    /\ bookmarks' = IF o \in {"created", "created_no_id"}
                    THEN Append(bookmarks, Bookmark(karakeep_title, form, NoId))
                    ELSE bookmarks
    /\ IF raises(o) \/ ~truthy(created_id(o, Len(bookmarks) + 1))
       THEN /\ Flash("send_failed", "error")
            /\ outbound' = Answered("failed")
       ELSE /\ new_bookmark_id' = str(created_id(o, Len(bookmarks) + 1))
            /\ outbound' = Append(Answered(IF o = "created" THEN "clean" ELSE "failed"),
                                  Outbound("PUT link", karakeep_list_id,
                                           str(created_id(o, Len(bookmarks) + 1))))
            /\ ppc' = "link"
            /\ UNCHANGED <<karakeep_title, karakeep_list_id, notice>>

\* PUT /lists/<list id>/bookmarks/<bookmark id> answers; the handler's notice
PubLink(o) ==
    /\ ppc = "link"
    /\ UNCHANGED <<call, ret, storeVars, configVars, localVars, requestVars, workers>>
    /\ UNCHANGED <<n_publishes, form, lists_response>>
    /\ outbound' = Answered(IF o = "linked" THEN "clean" ELSE "failed")
    /\ bookmarks' = IF o = "linked"
                    THEN [i \in DOMAIN bookmarks |->
                            IF str(IntId(BookmarkIds[i])) = new_bookmark_id
                            THEN [bookmarks[i] EXCEPT !.list = karakeep_list_id]
                            ELSE bookmarks[i]]
                    ELSE bookmarks
    /\ IF raises(o)
       THEN Flash("send_failed", "error")
       ELSE Flash("sent", "success")

InitPublish ==
    /\ call = [fn |-> "send_to_karakeep"]
    /\ ret = NotCalled
    /\ InitStoreVars
    /\ main_thread = TRUE
    /\ llm \in BOOLEAN
    /\ karakeep \in Settings
    /\ InitPipelineVars
    /\ InitPublishVars

NextPublish ==
    \/ \E f \in Forms : PubReceive(f)
    \/ \E o \in TitleOutcomes : PubTitle(o)
    \/ \E response_data \in ListsOutcomes : PubLists(response_data)
    \/ \E o \in CreateOutcomes : PubCreate(o)
    \/ \E o \in LinkOutcomes : PubLink(o)

SpecPublish == InitPublish /\ [][NextPublish]_vars

\* whether the publish request issued call c and it completed cleanly: GET
\* lists gave a list id, POST bookmarks a 2xx response with an id, PUT a 2xx
\* response
Clean(c) ==
    \E i \in DOMAIN outbound : outbound[i].call = c /\ outbound[i].result = "clean"

\* C16: a publish request that has ended flashed the success notice exactly
\* when the list lookup, the bookmark creation and the link call all completed
\* cleanly, and the failure notice otherwise.
C16_SuccessIffAllClean ==
    (ppc = "idle" /\ n_publishes > 0)
    => /\ notice.category = "success"
            <=> (Clean("GET lists") /\ Clean("POST bookmarks") /\ Clean("PUT link"))
       /\ notice.category \in {"success", "error"}

\* a publish request whose create call succeeded and whose link call failed,
\* after one that succeeded
C16_Witness ==
    /\ ppc = "idle"
    /\ n_publishes = 2
    /\ Clean("POST bookmarks") /\ ~Clean("PUT link")
    /\ notice.category = "error"
    /\ \E i \in DOMAIN bookmarks : truthy(bookmarks[i].list)

\* whether a lists response is a dictionary in which none of the keys data,
\* results, items, lists holds a sequence
NoRecognizedList(r) ==
    /\ r.kind = "dict"
    /\ \A j \in DOMAIN r.keys :
         r.keys[j].key \in {"data", "results", "items", "lists"} => ~r.keys[j].is_list

Issued(c) == \E i \in DOMAIN outbound : outbound[i].call = c

\* C17: when GET /lists answered with a dictionary in which no recognized key
\* holds a sequence, the publish request has ended with the failure notice and
\* issued neither POST bookmarks nor PUT link.
C17_NoListNoCreate ==
    NoRecognizedList(lists_response)
    => /\ ppc = "idle"
       /\ notice.category = "error"
       /\ ~Issued("POST bookmarks") /\ ~Issued("PUT link")

\* such a response, holding a list under a key that is not recognized
C17_Witness ==
    /\ NoRecognizedList(lists_response)
    /\ \E j \in DOMAIN lists_response.keys : lists_response.keys[j].is_list
    /\ notice = flash("list_not_found", "error")

\* C18: the bookmark service never holds two bookmarks for the same summary
\* and original URL: publishing the same summary again creates no second one.
C18_PublishIdempotent ==
    \A i, j \in DOMAIN bookmarks :
        (bookmarks[i].text = bookmarks[j].text /\ bookmarks[i].url = bookmarks[j].url)
        => i = j

\* C19: when one of the three Karakeep settings is absent, a publish request
\* issues no outbound call: no title call, no GET lists, no POST bookmarks, no
\* PUT link.
C19_DisabledIssuesNothing ==
    ~is_karakeep_enabled => outbound = <<>>

\* C20: a summarize request for a YouTube URL whose video has transcripts
\* disabled or no transcript at all is back in the handler with a failed fetch
\* or has ended; it called neither get_summary_from_llm nor the model, put
\* nothing into the store, and its response is the transcripts-unavailable
\* error.
C20_NoTranscriptIsFetchError ==
    (Has("transcripts_disabled") \/ Has("no_transcript"))
    => /\ pc \in {"fetch_ret", "idle"}
       /\ Has("fetch_fail")
       /\ ~Has("llm_call") /\ ~Has("model") /\ ~Has("put")
       /\ (pc = "idle" /\ response.to = "summarize_ajax")
            => (response.status = "error" /\ response.message = "transcript")

\* the second request of a run ended with that error for a video with
\* transcripts disabled
C20_Witness ==
    /\ pc = "idle"
    /\ Has("transcripts_disabled")
    /\ response = Reply("summarize_ajax", "error", 400, "transcript")
    /\ n_requests = 2

(***************************************************************************)
(* The text functions run on their own: the three size limits and the      *)
(* title clean-up, on texts around their boundaries                        *)
(***************************************************************************)

\* how many characters past a size limit the texts go
MaxOver == 2

\* how many words the generated titles have at most
MaxTitleWords == 14

\* the size limit and the marker of each function that truncates
LimitOf(fn) ==
    CASE fn = "fetch_page_content" -> [cap |-> MAX_CHARS, marker |-> ContentMarker]
      [] fn = "fetch_youtube_transcript" ->
           [cap |-> MAX_TRANSCRIPT_CHARS, marker |-> TranscriptMarker]
      [] fn = "get_summary_from_llm" -> [cap |-> MAX_CONTENT_LENGTH, marker |-> ContentMarker]

\* the calls of a truncating function: text is what the page, the transcript
\* segment or the caller holds, core the content whose length the function
\* compares with its limit (one space per gap once a fetcher has joined the
\* words; get_summary_from_llm takes the content as it is)
BoundaryCalls(fn) ==
    LET cap == LimitOf(fn).cap
        gaps(g) == IF fn = "get_summary_from_llm" THEN g ELSE 1
    IN  {[fn |-> fn, text |-> <<[c |-> "x", n |-> l]>>, core |-> <<[c |-> "x", n |-> l]>>] :
           l \in (cap - 1)..(cap + MaxOver)}
        \cup
        {[fn |-> fn,
          text |-> <<[c |-> "x", n |-> a], [c |-> " ", n |-> g], [c |-> "x", n |-> b]>>,
          core |-> <<[c |-> "x", n |-> a], [c |-> " ", n |-> gaps(g)], [c |-> "x", n |-> b]>>] :
           a \in (cap - 2)..cap, g \in 1..2, b \in 1..MaxOver}

\* the answers of the title call: core is the title proper, text what the
\* model wrote around it (nothing, quotes, or quotes inside whitespace)
TitleCalls ==
    LET pad == <<[c |-> " ", n |-> 2]>>
    IN  UNION {{[fn |-> "get_short_title_from_llm", text |-> Words(n, g), core |-> Words(n, g)],
                [fn |-> "get_short_title_from_llm",
                 text |-> DoubleQuote \o Words(n, g) \o DoubleQuote, core |-> Words(n, g)],
                [fn |-> "get_short_title_from_llm",
                 text |-> pad \o SingleQuote \o DoubleQuote \o Words(n, g) \o DoubleQuote
                            \o SingleQuote \o pad,
                 core |-> Words(n, g)]} :
               n \in 0..MaxTitleWords, g \in 1..2}

InitText ==
    /\ call \in BoundaryCalls("fetch_page_content")
                  \cup BoundaryCalls("fetch_youtube_transcript")
                  \cup BoundaryCalls("get_summary_from_llm")
                  \cup TitleCalls
    /\ ret = NotCalled
    /\ InitStoreVars
    /\ main_thread = TRUE
    /\ llm = TRUE
    /\ karakeep = AllSettings
    /\ InitPipelineVars
    /\ InitPublishVars

\* fetch_page_content on a page whose body holds the text
CallFetchPageContent ==
    /\ call.fn = "fetch_page_content"
    /\ ~ret.done
    /\ ret' = Returned(fetch_page_content([kind |-> "body", text |-> call.text]))
    /\ UNCHANGED <<call, storeVars, configVars, localVars, requestVars, publishVars, workers>>

\* fetch_youtube_transcript from the formatting loop on, the transcript having
\* one segment with the text
CallFormatTranscript ==
    /\ call.fn = "fetch_youtube_transcript"
    /\ ~ret.done
    /\ ret' = Returned(format_transcript(<<[shape |-> "dict", text |-> call.text]>>))
    /\ UNCHANGED <<call, storeVars, configVars, localVars, requestVars, publishVars, workers>>

\* get_summary_from_llm up to its prompt: the content the prompt carries
CallBuildPrompt ==
    /\ call.fn = "get_summary_from_llm"
    /\ ~ret.done
    /\ ret' = Returned(build_prompt(call.text, <<>>, FALSE).content)
    /\ UNCHANGED <<call, storeVars, configVars, localVars, requestVars, publishVars, workers>>

\* get_short_title_from_llm once the model answered with the text
CallShortTitle ==
    /\ call.fn = "get_short_title_from_llm"
    /\ ~ret.done
    /\ ret' = Returned(get_short_title_from_llm([kind |-> "text", text |-> call.text]))
    /\ UNCHANGED <<call, storeVars, configVars, localVars, requestVars, publishVars, workers>>

NextText ==
    \/ CallFetchPageContent
    \/ CallFormatTranscript
    \/ CallBuildPrompt
    \/ CallShortTitle

SpecText == InitText /\ [][NextText]_vars

TruncatingFunctions == {"fetch_page_content", "fetch_youtube_transcript", "get_summary_from_llm"}

\* C21: for each of the three size limits, content whose length is exactly the
\* limit is passed on unmodified, and content one character longer becomes its
\* first limit characters followed by the truncation marker of that function.
C21_TruncationBoundary ==
    (ret.done /\ call.fn \in TruncatingFunctions)
    => /\ TLen(call.core) = LimitOf(call.fn).cap => ret.value = call.core
       /\ TLen(call.core) = LimitOf(call.fn).cap + 1
            => /\ TLen(ret.value) = LimitOf(call.fn).cap + LimitOf(call.fn).marker[1].n
               /\ TTake(ret.value, LimitOf(call.fn).cap) = TTake(call.core, LimitOf(call.fn).cap)
               /\ ret.value[Len(ret.value)] = LimitOf(call.fn).marker[1]

\* a transcript one character over its limit once its words are joined, cut
\* after the space at the limit
C21_Witness ==
    /\ ret.done
    /\ call.fn = "fetch_youtube_transcript"
    /\ call.text # call.core
    /\ TLen(call.core) = MAX_TRANSCRIPT_CHARS + 1
    /\ ret.value = <<[c |-> "x", n |-> MAX_TRANSCRIPT_CHARS - 1], [c |-> " ", n |-> 1]>>
                     \o TranscriptMarker

\* how many words the title proper of a call has
WordsOf(t) == Cardinality({i \in DOMAIN t : t[i].c = "x"})

OwnUrl(s) ==
    IF s = "s1"
    THEN <<"h", "t", "t", "p", "s", ":", "/", "/", "a", ".", "b", "/">>
    ELSE <<"h", "t", "t", "p", "s", ":", "/", "/", "y", "o", "u", "t", "u", ".", "b", "e", "/">>
           \o GoodId

\* the with block of store_summary_data left before json.dump has written
\* the whole document
dump_done_early(k) == TRUE

\* whether json.dump has written the whole document: the three pairs and the
\* closing brace
dump_done(k) == k = Len(json_dump(SummaryData(<<>>, <<>>)).pairs)

\* a thread's call has returned or raised
Done(w) == workers' = [workers EXCEPT ![w] = IdleWorker]

\* summarize_ajax of a request of session s calls store_summary_data:
\* uuid4 returns tok
StoreStart(w, s, t, tok) ==
    /\ workers[w].pc = "idle"
    /\ uuid4(tok)
    /\ issued' = issued \cup {tok}
    /\ workers' = [workers EXCEPT ![w] =
                     [pc |-> "open", session |-> s, tok |-> tok, k |-> 0,
                      data |-> SummaryData(OwnUrl(s), t)]]
    /\ UNCHANGED <<call, ret, files, stored, taken, configVars, localVars, requestVars,
                   publishVars>>

\* open(temp_path, 'w') creates the file or empties it; or it raises and
\* summarize_ajax answers with the storage error
StoreOpen(w, ok) ==
    /\ workers[w].pc = "open"
    /\ IF ok
       THEN /\ files' = [files EXCEPT ![workers[w].tok] =
                           File(PartialDump(workers[w].data, 0))]
            /\ workers' = [workers EXCEPT ![w].pc = "dump"]
       ELSE /\ Done(w)
            /\ UNCHANGED files
    /\ UNCHANGED <<call, ret, issued, stored, taken, configVars, localVars, requestVars,
                   publishVars>>

\* json.dump writes the next pair, the closing brace with the last one; or it
\* raises, the file stays as it is, and summarize_ajax answers with the
\* storage error
StoreDump(w, ok) ==
    /\ workers[w].pc = "dump"
    /\ ~dump_done(workers[w].k)
    /\ IF ok
       THEN /\ files' = [files EXCEPT ![workers[w].tok] =
                           IF dump_done(workers[w].k + 1)
                           THEN File(json_dump(workers[w].data))
                           ELSE File(PartialDump(workers[w].data, workers[w].k + 1))]
            /\ workers' = [workers EXCEPT ![w].k = @ + 1]
       ELSE /\ Done(w)
            /\ UNCHANGED files
    /\ UNCHANGED <<call, ret, issued, stored, taken, configVars, localVars, requestVars,
                   publishVars>>

\* store_summary_data returns the token; summarize_ajax puts it into the
\* session and answers
StoreReturn(w) ==
    /\ workers[w].pc = "dump"
    /\ dump_done(workers[w].k)
    /\ stored' = [stored EXCEPT ![workers[w].tok] = [put |-> TRUE, data |-> workers[w].data]]
    /\ taken' = [taken EXCEPT ![workers[w].tok] = <<>>]
    /\ session' = [session EXCEPT ![workers[w].session] = workers[w].tok]
    /\ Done(w)
    /\ UNCHANGED <<call, ret, files, issued, configVars, localVars, publishVars>>
    /\ UNCHANGED <<alarm, n_requests, pc, req, response, events>>

\* retrieve_summary_data returns or raises: show_summary answers, and the
\* session of its response holds no token
RetrieveDone(w, result) ==
    /\ taken' = [taken EXCEPT ![workers[w].tok] = Append(@, result)]
    /\ session' = [session EXCEPT ![workers[w].session] = NoToken]
    /\ Done(w)

\* show_summary of a request of session s, whose cookie holds a token, calls
\* retrieve_summary_data
RetrieveStart(w, s) ==
    /\ workers[w].pc = "idle"
    /\ session[s] # NoToken
    /\ Len(taken[session[s]]) + Cardinality({v \in Workers : workers[v].pc \in {"exists", "load", "remove"}
                                               /\ workers[v].tok = session[s]}) < MaxTakes
    /\ workers' = [workers EXCEPT ![w] =
                     [IdleWorker EXCEPT !.pc = "exists", !.session = s, !.tok = session[s]]]
    /\ UNCHANGED <<call, ret, storeVars, configVars, localVars, requestVars, publishVars>>

\* if not os.path.exists(temp_path): return None
RetrieveExists(w) ==
    /\ workers[w].pc = "exists"
    /\ IF files[workers[w].tok].exists
       THEN /\ workers' = [workers EXCEPT ![w].pc = "load"]
            /\ UNCHANGED <<taken, session>>
       ELSE RetrieveDone(w, Absent)
    /\ UNCHANGED <<call, ret, files, issued, stored, configVars, localVars, publishVars>>
    /\ UNCHANGED <<alarm, n_requests, pc, req, response, events>>

\* open(temp_path, 'r') and json.load; FileNotFoundError and JSONDecodeError
\* lead to the except branch and its NameError
RetrieveLoad(w) ==
    /\ workers[w].pc = "load"
    /\ IF files[workers[w].tok].exists /\ ~json_load(files[workers[w].tok].data).JSONDecodeError
       THEN /\ workers' = [workers EXCEPT ![w].pc = "remove",
                                          ![w].data = json_load(files[workers[w].tok].data).value]
            /\ UNCHANGED <<taken, session>>
       ELSE RetrieveDone(w, NameError)
    /\ UNCHANGED <<call, ret, files, issued, stored, configVars, localVars, publishVars>>
    /\ UNCHANGED <<alarm, n_requests, pc, req, response, events>>

\* os.remove(temp_path) and return summary_data; FileNotFoundError leads to
\* the except branch and its NameError
RetrieveRemove(w) ==
    /\ workers[w].pc = "remove"
    /\ IF files[workers[w].tok].exists
       THEN /\ files' = [files EXCEPT ![workers[w].tok] = NoFile]
            /\ RetrieveDone(w, Found(workers[w].data))
       ELSE /\ RetrieveDone(w, NameError)
            /\ UNCHANGED files
    /\ UNCHANGED <<call, ret, issued, stored, configVars, localVars, publishVars>>
    /\ UNCHANGED <<alarm, n_requests, pc, req, response, events>>

InitConcurrent ==
    /\ call = [fn |-> "threads"]
    /\ ret = NotCalled
    /\ InitStoreVars
    /\ main_thread = FALSE
    /\ llm = TRUE
    /\ karakeep = AllSettings
    /\ InitPipelineVars
    /\ InitPublishVars

NextConcurrent ==
    \/ \E w \in Workers, s \in Sessions, t \in StoreTexts, tok \in Tokens : StoreStart(w, s, t, tok)
    \/ \E w \in Workers, ok \in BOOLEAN : StoreOpen(w, ok)
    \/ \E w \in Workers, ok \in BOOLEAN : StoreDump(w, ok)
    \/ \E w \in Workers : StoreReturn(w)
    \/ \E w \in Workers, s \in Sessions : RetrieveStart(w, s)
    \/ \E w \in Workers : RetrieveExists(w)
    \/ \E w \in Workers : RetrieveLoad(w)
    \/ \E w \in Workers : RetrieveRemove(w)

SpecConcurrent == InitConcurrent /\ [][NextConcurrent]_vars

PutSteps == {"open", "dump"}
TakeSteps == {"exists", "load", "remove"}

\* C23: whatever the interleaving of the put and take steps of concurrent
\* requests, a put never overwrites another request's record (a stored record
\* holds what its put wrote until it is taken, a file being written holds what
\* its own put wrote so far, two puts in progress write different files), and
\* a session's take works on and returns the payload that session's own
\* summarize request stored.
C23_NoCollision ==
    /\ \A t \in Tokens :
         (stored[t].put /\ files[t].exists) => files[t].data = json_dump(stored[t].data)
    /\ \A w \in Workers :
         workers[w].pc = "dump"
         => /\ files[workers[w].tok].exists
            /\ files[workers[w].tok].data =
                 IF dump_done(workers[w].k) THEN json_dump(workers[w].data)
                 ELSE PartialDump(workers[w].data, workers[w].k)
    /\ \A w, v \in Workers :
         (w # v /\ workers[w].pc \in PutSteps /\ workers[v].pc \in PutSteps)
         => workers[w].tok # workers[v].tok
    /\ \A w \in Workers :
         workers[w].pc \in TakeSteps
         => /\ stored[workers[w].tok].put
            /\ stored[workers[w].tok].data.original_url = OwnUrl(workers[w].session)
            /\ workers[w].pc = "remove" => workers[w].data = stored[workers[w].tok].data
    /\ \A t \in Tokens : \A i \in DOMAIN taken[t] :
         taken[t][i].found => taken[t][i] = Found(stored[t].data)

\* two requests of different sessions, each about to return its own payload,
\* both records read while the other was still in the store
C23_Witness ==
    /\ workers["w1"].pc = "remove" /\ workers["w2"].pc = "remove"
    /\ workers["w1"].session # workers["w2"].session
    /\ workers["w1"].data.original_url = OwnUrl(workers["w1"].session)
    /\ workers["w2"].data.original_url = OwnUrl(workers["w2"].session)

\* C24: in no interleaving does a take find a partially written record: the
\* record of a take in progress, while it exists, is a whole document, and no
\* take works on the record a put is still writing; so no record whose write
\* has not completed is returned or deleted by a take.
C24_PutTakeAtomic ==
    \A w \in Workers :
        workers[w].pc \in TakeSteps
        => /\ files[workers[w].tok].exists => files[workers[w].tok].data.closed
           /\ \A v \in Workers :
                workers[v].pc \in PutSteps => workers[v].tok # workers[w].tok

\* a take about to read its record while a put of another request has written
\* part of its document
C24_Witness ==
    \E w, v \in Workers :
        /\ workers[w].pc = "load"
        /\ workers[v].pc = "dump" /\ workers[v].k = 1
        /\ files[workers[v].tok].exists /\ ~files[workers[v].tok].data.closed
        /\ files[workers[w].tok].exists

\* the URLs of the summarize requests that is_valid_url accepts, and those
\* that is_youtube_url classifies as a YouTube video
ValidUrls ==
    UNION {IF is_valid_url(UrlOf(u)) THEN {u} ELSE {} : u \in PipelineUrls}
YoutubeUrls ==
    UNION {IF is_youtube_url(UrlOf(u)) # NoneStr THEN {u} ELSE {} : u \in PipelineUrls}

\* C25: a summarize request that passed validation invokes exactly one
\* fetcher, the transcript fetcher when is_youtube_url classified its URL as a
\* YouTube video and the web fetcher otherwise, whatever that fetcher returns;
\* the prompt of its model call has the template of that same kind.
C25_OneFetcherByKind ==
    /\ (n_requests > 0 /\ req.body.is_json /\ req.body.is_object /\ req.body.has_url
          /\ req.body.url \in ValidUrls)
       => /\ Count(FetchCalls) = 1
          /\ Has("fetch_transcript") <=> req.body.url \in YoutubeUrls
          /\ Has("fetch_page") <=> req.body.url \notin YoutubeUrls
    /\ prompt # NoPrompt
       => prompt.template = IF Has("fetch_transcript") THEN "youtube" ELSE "web"

\* a request for a YouTube URL whose transcript fetch failed and that ended
\* with the transcript error, the web fetcher not invoked
C25_Witness ==
    /\ pc = "idle"
    /\ events = <<"fetch_transcript", "fetch_fail">>
    /\ response = Reply("summarize_ajax", "error", 400, "transcript")
    /\ main_thread

\* the languages of a list of transcripts that are preferred ones
Preferred(codes) == {codes[i] : i \in DOMAIN codes} \cap {"en", "en-US", "en-GB"}

\* C26: the transcript selected from a list is a manually created one in en,
\* en-US or en-GB whenever the list has one; otherwise a generated one in
\* those languages when it has one; otherwise the first transcript of the list
\* (the manually created ones are listed first), and none for an empty list.
C26_SelectionPriority ==
    (ret.done /\ call.fn = "select_transcript")
    => /\ Preferred(call.arg.manual) # {}
            => /\ ret.value.found /\ ~ret.value.is_generated
               /\ ret.value.language_code \in Preferred(call.arg.manual)
       /\ (Preferred(call.arg.manual) = {} /\ Preferred(call.arg.generated) # {})
            => /\ ret.value.found /\ ret.value.is_generated
               /\ ret.value.language_code \in Preferred(call.arg.generated)
       /\ (Preferred(call.arg.manual) = {} /\ Preferred(call.arg.generated) = {})
            => ret.value =
                 IF call.arg.manual # <<>> THEN Transcript(FALSE, call.arg.manual[1])
                 ELSE IF call.arg.generated # <<>> THEN Transcript(TRUE, call.arg.generated[1])
                 ELSE NoTranscript

\* a list with a manually created German transcript and generated German and
\* British English ones: the generated British English one is selected
C26_Witness ==
    /\ ret.done /\ call.fn = "select_transcript"
    /\ call.arg.manual = <<"de">>
    /\ call.arg.generated = <<"de", "en-GB">>
    /\ ret.value = Transcript(TRUE, "en-GB")

\* C27: when requests.get fails or times out, the status is not 2xx, the
\* content type is not text/html or the document has no body, fetch_page_content
\* returns None, and the summarize request ends with the could-not-fetch error
\* response, the model not invoked.
C27_FetchFailureIsFetchError ==
    (events # <<>> /\ events[1] = "fetch_page" /\ Has("fetch_fail"))
    => /\ pc \in {"fetch_ret", "idle"}
       /\ pc = "fetch_ret" => (~exc /\ content = NoneText)
       /\ ~Has("llm_call") /\ ~Has("model")
       /\ (pc = "idle" /\ response.to = "summarize_ajax")
            => response = Reply("summarize_ajax", "error", 400, "fetch")

\* the entries a lists response offers the lookup: the response itself when it
\* is a sequence; for a mapping, the value under data if that is a sequence,
\* else under results, else under items, else under lists
EntriesOf(r) ==
    LET under(key) == {j \in DOMAIN r.keys : r.keys[j].key = key /\ r.keys[j].is_list}
        value(key) == r.keys[CHOOSE j \in under(key) : TRUE].entries
    IN  IF r.kind = "list" THEN r.entries
        ELSE IF under("data") # {} THEN value("data")
        ELSE IF under("results") # {} THEN value("results")
        ELSE IF under("items") # {} THEN value("items")
        ELSE IF under("lists") # {} THEN value("lists")
        ELSE <<>>

\* the entries of a sequence whose name is list_name
Named(entries) == {i \in DOMAIN entries : entries[i].is_dict /\ entries[i].name = list_name}

\* the lookup of the publish request reported Failure
LookupFailed ==
    /\ ppc = "idle"
    /\ notice = flash("list_not_found", "error")
    /\ ~Issued("POST bookmarks")

\* C28: once GET /lists answered with a sequence or a mapping, the lookup
\* reads the entries from the sequence, or from the first of data, results,
\* items, lists that holds a sequence; when one of them has the name list_name
\* and an id, the lookup returned the id of such an entry as a string; when
\* none has that name, it reported Failure.
C28_LookupReturnsNamedId ==
    lists_response.kind \in {"list", "dict"}
    => /\ Named(EntriesOf(lists_response)) = {} => LookupFailed
       /\ (\E i \in Named(EntriesOf(lists_response)) : EntriesOf(lists_response)[i].id # NoId)
            => /\ Issued("POST bookmarks")
               /\ ppc \in {"create", "link"}
                    => \E i \in Named(EntriesOf(lists_response)) :
                         /\ EntriesOf(lists_response)[i].id # NoId
                         /\ karakeep_list_id = StrId(EntriesOf(lists_response)[i].id.v)

\* a mapping with sequences under lists and under items and something else
\* under data: the id is the one of the entry under items
C28_Witness ==
    /\ lists_response.kind = "dict"
    /\ \E j \in DOMAIN lists_response.keys : lists_response.keys[j].key = "lists"
                                              /\ lists_response.keys[j].is_list
    /\ ppc = "create"
    /\ karakeep_list_id = StrId("L8")

\* C29: when the first entry named list_name has no id that can be extracted,
\* the lookup reports Failure.
C29_NoIdIsFailure ==
    ( /\ lists_response.kind \in {"list", "dict"}
      /\ Named(EntriesOf(lists_response)) # {}
      /\ \A i \in Named(EntriesOf(lists_response)) :
           (\A k \in Named(EntriesOf(lists_response)) : i <= k)
           => EntriesOf(lists_response)[i].id = NoId )
    => LookupFailed

\* the positions of the outbound calls of kind c in the publish request
Calls(c) == {i \in DOMAIN outbound : outbound[i].call = c}

\* C30: in a publish request each of GET lists, POST bookmarks and PUT link
\* is issued at most once; POST bookmarks only after GET lists answered with
\* an entry of the list's name that has an id; PUT link only after POST
\* bookmarks answered 2xx with an id, and with the list id of such an entry and
\* the id of the bookmark that POST created in its address.
C30_PublisherCallOrder ==
    /\ \A c \in {"GET lists", "POST bookmarks", "PUT link"} : Cardinality(Calls(c)) <= 1
    /\ \A i \in Calls("POST bookmarks") :
         /\ \E j \in Calls("GET lists") : j < i
         /\ \E k \in Named(EntriesOf(lists_response)) : EntriesOf(lists_response)[k].id # NoId
    /\ \A i \in Calls("PUT link") :
         /\ \E j \in Calls("POST bookmarks") : j < i /\ outbound[j].result = "clean"
         /\ \E k \in Named(EntriesOf(lists_response)) :
              /\ EntriesOf(lists_response)[k].id # NoId
              /\ outbound[i].list = StrId(EntriesOf(lists_response)[k].id.v)
         /\ bookmarks # <<>>
         /\ outbound[i].bookmark = StrId(BookmarkIds[Len(bookmarks)])

\* the second publish request of a run went through the three calls, its PUT
\* addressed to list 7 and to the second bookmark
C30_Witness ==
    /\ ppc = "idle"
    /\ n_publishes = 2
    /\ [i \in DOMAIN outbound |-> outbound[i].call]
         = <<"title", "GET lists", "POST bookmarks", "PUT link">>
    /\ outbound[4].list = StrId("7")
    /\ outbound[4].bookmark = StrId("2")
    /\ outbound[4].result = "clean"

\* whether the publish request has ended on a PUT link that failed
LinkFailed ==
    /\ ppc = "idle"
    /\ outbound # <<>>
    /\ outbound[Len(outbound)].call = "PUT link"
    /\ outbound[Len(outbound)].result = "failed"

\* C31: when the PUT link failed after POST bookmarks had created a bookmark,
\* the publish request flashed the failure notice, the bookmark it created is
\* in the bookmark service with the request's title input, text and URL and
\* linked to no list, and the request issued nothing but the title call, GET
\* lists, POST bookmarks and that PUT; no step removes a bookmark from the
\* service, and an unlinked bookmark changes only by a PUT link to it that
\* succeeds.
C31_PartialCompletionKept ==
    [][ /\ LinkFailed'
          => /\ notice' = flash("send_failed", "error")
             /\ [i \in DOMAIN outbound' |-> outbound'[i].call]
                  = <<"title", "GET lists", "POST bookmarks", "PUT link">>
             /\ outbound'[3].result = "clean"
             /\ bookmarks' # <<>>
             /\ outbound'[4].bookmark = StrId(BookmarkIds[Len(bookmarks')])
             /\ bookmarks'[Len(bookmarks')].list = NoId
             /\ bookmarks'[Len(bookmarks')].url = form'.original_url
             /\ bookmarks'[Len(bookmarks')].text = form'.summary_markdown
        /\ \A i \in DOMAIN bookmarks :
             /\ i \in DOMAIN bookmarks'
             /\ bookmarks'[i] # bookmarks[i]
                  => /\ ppc = "link"
                     /\ new_bookmark_id = StrId(BookmarkIds[i])
                     /\ outbound'[Len(outbound')].result = "clean"
                     /\ bookmarks'[i] = [bookmarks[i] EXCEPT !.list = karakeep_list_id]
      ]_vars

\* two publish requests have each created a bookmark and failed to link it:
\* both bookmarks are in the service, linked to no list
C31_Witness ==
    /\ LinkFailed
    /\ n_publishes = 2
    /\ Len(bookmarks) = 2
    /\ \A i \in DOMAIN bookmarks : bookmarks[i].list = NoId

\* whether this step ends a summarize request with the success response
AnswersSuccess ==
    /\ pc = "llm_ret"
    /\ pc' = "idle"
    /\ response'.status = "success"

\* the tokens whose file this step created, changed or removed
Touched == {t \in Tokens : files'[t] # files[t]}

\* C32: a step in which a summarize request answers with status success
\* creates the file of exactly one token that had none and touches no other
\* file; that file holds the request's URL, the markdown the model call
\* returned and the HTML markdown.markdown makes of it; the request's session
\* holds that token and no other session changes; the response is the 200
\* redirect reply, which carries no part of the record.
C32_SuccessStoresOneRecord ==
    [][ AnswersSuccess
        => /\ summary = summary_of(model_response)
           /\ \E t \in Tokens :
                /\ Touched = {t}
                /\ ~files[t].exists
                /\ files'[t] = File(json_dump([original_url |-> UrlOf(req.body.url),
                                               summary_html |-> markdown(summary),
                                               summary_markdown |-> summary]))
                /\ session' = [session EXCEPT ![req.session] = t]
                /\ \A s \in Sessions : session[s] # t
           /\ response' = Reply("summarize_ajax", "success", 200, "redirect")
           /\ req' = req
      ]_vars

\* a success response for a summary with text, stored under the second token
\* in a session that held the first
C32_Witness ==
    /\ pc = "idle"
    /\ response = Reply("summarize_ajax", "success", 200, "redirect")
    /\ session[req.session] = 2
    /\ files[2].exists
    /\ files[2].data.pairs[3][2] = strip(SummaryText)
    /\ files[2].data.pairs[2][2] # files[2].data.pairs[3][2]
    /\ files[1].exists

\* C33: an alarm armed by fetch_youtube_transcript is pending only while that
\* call is running: once it has returned, by whichever path, no SIGALRM is
\* pending, so none can be delivered during the rest of the request or during
\* another request.
C33_AlarmNeverOutlivesFetch ==
    alarm => pc \in {"yt_list", "yt_fetch", "yt_except"}

\* C34: whatever the interleaving of the exists, load and remove steps of two
\* retrieve_summary_data calls for the same token, at most one of them returns
\* the payload, each other one returns None without raising, and once no call
\* for the token is in progress its file is gone.
C34_ConcurrentTakeOnce ==
    \A t \in Tokens :
        /\ Cardinality({i \in DOMAIN taken[t] : taken[t][i].found}) <= 1
        /\ \A i \in DOMAIN taken[t] : ~taken[t][i].found => taken[t][i] = Absent
        /\ (taken[t] # <<>> /\ \A w \in Workers : ~(workers[w].pc \in TakeSteps /\ workers[w].tok = t))
             => ~files[t].exists

\* whether this step is a show_summary request that found a token, read the
\* store or answered something new
ShowStep ==
    /\ response'.to = "show_summary"
    /\ \/ response' # response
       \/ taken' # taken
       \/ \E s \in Sessions : session[s] # NoToken /\ session'[s] = NoToken

\* C35: every show_summary request leaves its session without a token and
\* every other session as it was, whether it rendered the summary, found no
\* record, or found no token; a take of a token is made only by a request
\* whose session held that token, once, so the session has to be given a token
\* again before it leads to another take; a request whose session holds no
\* token reads nothing from the store and redirects to the start page with the
\* no-summary notice.
C35_ShowClearsToken ==
    [][ ShowStep
        => \E s \in Sessions :
             /\ session' = [session EXCEPT ![s] = NoToken]
             /\ IF session[s] = NoToken
                THEN /\ response' = Reply("show_summary", "redirect", 302, "info_no_summary")
                     /\ UNCHANGED <<files, taken>>
                ELSE /\ Len(taken'[session[s]]) = Len(taken[session[s]]) + 1
                     /\ \A t \in Tokens \ {session[s]} :
                          taken'[t] = taken[t] /\ files'[t] = files[t]
                     /\ ~files'[session[s]].exists
                     /\ response'.message # "info_no_summary"
      ]_vars

\* a show_summary request whose session held a token found no record behind
\* it: the token had been shown before, from the other session; now no session
\* holds a token
C35_Witness ==
    /\ response = Reply("show_summary", "redirect", 302, "error_not_retrieved")
    /\ \A s \in Sessions : session[s] = NoToken
    /\ \E t \in Tokens : Len(taken[t]) = 2 /\ taken[t][1].found /\ taken[t][2] = Absent

\* whether the record of token t was stored, has not been given to any
\* show_summary, and is referenced by no session
Orphaned(t) ==
    /\ stored[t].put
    /\ taken[t] = <<>>
    /\ \A s \in Sessions : session[s] # t

\* C36: a session holds one token at most, and a summarize request that
\* answers success in a session holding the token of an undisplayed record
\* puts the new token in its place: the earlier record is then in the store
\* and referenced by no session.  A record in that position stays in it: no
\* later step gives it to a show_summary, puts its token into a session, or
\* removes or changes its file.
C36_ReplacedRecordOrphaned ==
    [][ /\ (AnswersSuccess /\ session[req.session] # NoToken)
          => \E old \in Tokens :
               /\ old = session[req.session]
               /\ session'[req.session] \in Tokens \ {old}
               /\ Orphaned(old)'
        /\ \A t \in Tokens :
             Orphaned(t)
             => /\ Orphaned(t)'
                /\ files[t] = File(json_dump(stored[t].data))
                /\ files'[t] = files[t]
                /\ stored'[t] = stored[t]
      ]_vars

\* the first record of a session was replaced by a second one, which has been
\* displayed since; the first is still in the store
C36_Witness ==
    /\ Orphaned(1)
    /\ files[1].exists
    /\ taken[2] = <<Found(stored[2].data)>>
    /\ ~files[2].exists
    /\ response.to = "show_summary"
    /\ \A s \in Sessions : session[s] = NoToken

\* whether this step ends a summarize request with a response other than
\* success
AnswersError ==
    /\ pc' = "idle"
    /\ pc # "idle" \/ n_requests' # n_requests
    /\ response'.to = "summarize_ajax"
    /\ response'.status # "success"

\* C37: a step in which a summarize request answers with an error leaves
\* every file of the store and every session's token as they were.
C37_ErrorLeavesStoreAndSession ==
    [][AnswersError => (files' = files /\ session' = session)]_vars

\* the positions of the runs of a text that belong to a truncation marker
MarkerRuns(t) == {i \in DOMAIN t : t[i].c \in {"ContentMarker", "TranscriptMarker"}}

\* C38: the content of a prompt submitted to the model is at most
\* MAX_CONTENT_LENGTH characters and one content marker long, and holds at
\* most one truncation marker, whole and at its end, whether the fetcher had
\* truncated what it returned or not.
C38_PromptContentBounded ==
    prompt # NoPrompt
    => /\ TLen(prompt.content) <= MAX_CONTENT_LENGTH + ContentMarkerLen
       /\ Cardinality(MarkerRuns(prompt.content)) <= 1
       /\ \A i \in MarkerRuns(prompt.content) :
            /\ i = Len(prompt.content)
            /\ prompt.content[i] \in {ContentMarker[1], TranscriptMarker[1]}

\* the model call for a page whose text fetch_page_content had cut to
\* MAX_CHARS characters and its marker: the prompt holds the first
\* MAX_CONTENT_LENGTH characters and one marker
C38_Witness ==
    /\ pc = "llm_wait"
    /\ content = <<[c |-> "x", n |-> MAX_CHARS]>> \o ContentMarker
    /\ prompt.content = <<[c |-> "x", n |-> MAX_CONTENT_LENGTH]>> \o ContentMarker

\* whether the publish request has issued a call to the bookmark service
ServiceCalled == Issued("GET lists") \/ Issued("POST bookmarks") \/ Issued("PUT link")

====
